---------------------------- MODULE Spec2Model ----------------------------
(***************************************************************************)
(* Model of the schedule propagation engine of the Gantt application        *)
(* (components/kibo-ui/gantt/utils/auto-schedule.ts).                       *)
(*                                                                         *)
(* Dates are whole days: a date is an integer day number, day 0 being      *)
(* Sunday 29 Dec 2024, so that day 3 is Wed 1 Jan 2025, day 5 is Fri 3 Jan *)
(* 2025 and getDay(d) is d % 7 (0 = Sunday .. 6 = Saturday).  addDays is    *)
(* integer addition and differenceInDays is integer subtraction.           *)
(***************************************************************************)
EXTENDS Integers, Sequences, FiniteSets, TLC

VARIABLES
    features,      \* the host's features array: sequence of feature records
    dependencies,  \* the host's dependencies array
    rules,         \* the host's scheduling rules array
    moved,         \* autoSchedule's movedFeatureId and newDates (<<>> when no move is made)
    input,         \* the caller's feature objects passed to the last engine call, as they stand
    order,         \* recalculateSchedule: the processing order of the last call
    updates,       \* the FeatureUpdate[] the last engine call returned
    warnings,      \* the CapacityWarning[] the last checkCapacity call returned
    calls,         \* number of engine calls made so far
    cal,           \* the calendar operation in progress (addWorkingDays, subtractWorkingDays)
    bfs,           \* the autoSchedule call in progress: featuresMap, queue, visited, for loop
    arrow,         \* the arrow router's work on one dependency: positions, endpoints, obstacles, path
    view           \* the Gantt view: pendingChanges, originalFeaturesRef, selectedChanges, the stored dates

vars == <<features, dependencies, rules, moved, input, order, updates, warnings, calls, cal, bfs,
         arrow, view>>

\* Bounds of the model
MaxCalls == 2      \* engine calls per run (the second call decides idempotence)
MaxStart == 1      \* latest start day of a feature of the graph inputs
MaxDur == 1        \* longest duration of a feature of the graph inputs
MaxDeps == 3       \* most dependencies of the graph inputs
MaxWorkDur == 2    \* longest duration of the dependent feature of the rule inputs
MaxDays == 2       \* most working days a calendar operation is asked to add or subtract
MaxCapDay == 2     \* latest date of a feature of the capacity inputs

-----------------------------------------------------------------------------
(* Dates *)

\* date-fns getDay: 0 = Sunday .. 6 = Saturday (day 0 of the model is a Sunday)
getDay(d) == d % 7

\* Date.getMonth() + 1 of the modelled window (29 Dec 2024 .. 2 Mar 2025)
getMonth(d) ==
    IF d <= 2 THEN 12 ELSE IF d <= 33 THEN 1 ELSE 2

\* Date.getDate() of the modelled window
getDate(d) ==
    IF d <= 2 THEN d + 29 ELSE IF d <= 33 THEN d - 2 ELSE d - 33

Max2(a, b) == IF a >= b THEN a ELSE b


-----------------------------------------------------------------------------
(* Scheduling rules.  A rule is a record holding its type, its enabled flag  *)
(* and the fields of every config variant; a field a variant does not have  *)
(* is absent in the code and holds the empty value here (absent and empty   *)
(* arrays behave alike in every test the engine makes: ?.includes, ?.length).*)

DepTypes == {"FS", "SS", "FF", "SF"}

BaseRule ==
    [type |-> "duration", enabled |-> TRUE,
     weekdays |-> {}, dates |-> {}, recurring |-> FALSE, month |-> 0, day |-> 0,
     startDate |-> 0, endDate |-> 0,
     days |-> 0, dependencyTypes |-> {}, betweenFeatures |-> {},
     constraintType |-> "", featureIds |-> {},
     startDay |-> 0, sourceId |-> "", targetId |-> "",
     maxConcurrent |-> 0, groupBy |-> "owner"]

HolidayRule(en, wds, ds) ==
    [BaseRule EXCEPT !.type = "holiday", !.enabled = en, !.weekdays = wds, !.dates = ds]

RecurringHolidayRule(en, m, d) ==
    [BaseRule EXCEPT !.type = "holiday", !.enabled = en, !.recurring = TRUE,
                     !.month = m, !.day = d]

BlackoutRule(en, s, e) ==
    [BaseRule EXCEPT !.type = "blackout", !.enabled = en, !.startDate = s, !.endDate = e]

SlackRule(en, n, types, pairs) ==
    [BaseRule EXCEPT !.type = "slack", !.enabled = en, !.days = n,
                     !.dependencyTypes = types, !.betweenFeatures = pairs]

LagRule(en, n, s, t) ==
    [BaseRule EXCEPT !.type = "lag", !.enabled = en, !.days = n,
                     !.sourceId = s, !.targetId = t]

ConstraintRule(en, ct, ids) ==
    [BaseRule EXCEPT !.type = "constraint", !.enabled = en, !.constraintType = ct,
                     !.featureIds = ids]

AlignmentRule(en, wd, ids) ==
    [BaseRule EXCEPT !.type = "alignment", !.enabled = en, !.startDay = wd,
                     !.featureIds = ids]

CapacityRule(en, n, by) ==
    [BaseRule EXCEPT !.type = "capacity", !.enabled = en, !.maxConcurrent = n,
                     !.groupBy = by]

DurationRule(en) == [BaseRule EXCEPT !.type = "duration", !.enabled = en]

\* rules.filter((r) => r.enabled)
EnabledRules(rs) == SelectSeq(rs, LAMBDA r : r.enabled)

\* One holiday rule's test of a date: weekday set, explicit dates (compared
\* as formatted yyyy-MM-dd days), recurring month/day.
HolidayRuleMatches(r, d) ==
    \/ getDay(d) \in r.weekdays
    \/ d \in r.dates
    \/ r.recurring /\ r.month # 0 /\ r.day # 0
         /\ getMonth(d) = r.month /\ getDate(d) = r.day

isHoliday(d, rs) ==
    \E i \in 1..Len(rs) :
        rs[i].type = "holiday" /\ rs[i].enabled /\ HolidayRuleMatches(rs[i], d)

\* Blackout ranges are inclusive; ISO date strings compare as the days do.
isBlackoutPeriod(d, rs) ==
    \E i \in 1..Len(rs) :
        rs[i].type = "blackout" /\ rs[i].enabled
          /\ d >= rs[i].startDate /\ d <= rs[i].endDate

isNonWorkingDay(d, rs) == isHoliday(d, rs) \/ isBlackoutPeriod(d, rs)

hasTimeOffRules(rs) ==
    \E i \in 1..Len(rs) : rs[i].type \in {"holiday", "blackout"} /\ rs[i].enabled


\* The forward scan of addWorkingDays: first loop (skip the non-working days
\* at the start date), then second loop (step a day, count it if working).
RECURSIVE SkipForward(_, _)
SkipForward(d, rs) == IF isNonWorkingDay(d, rs) THEN SkipForward(d + 1, rs) ELSE d

RECURSIVE CountForward(_, _, _)
CountForward(d, n, rs) ==
    IF n <= 0 THEN d
    ELSE CountForward(d + 1, IF isNonWorkingDay(d + 1, rs) THEN n ELSE n - 1, rs)

\* Mutant of addWorkingDays: calendar days whatever the rules are
addWorkingDays_CalendarDays(startDate, days, rs) == startDate + days

addWorkingDays(startDate, days, rs) ==
    IF ~hasTimeOffRules(rs) THEN startDate + days
    ELSE CountForward(SkipForward(startDate, rs), days, rs)

RECURSIVE SkipBackward(_, _)
SkipBackward(d, rs) == IF isNonWorkingDay(d, rs) THEN SkipBackward(d - 1, rs) ELSE d

RECURSIVE CountBackward(_, _, _)
CountBackward(d, n, rs) ==
    IF n <= 0 THEN d
    ELSE CountBackward(d - 1, IF isNonWorkingDay(d - 1, rs) THEN n ELSE n - 1, rs)

subtractWorkingDays(startDate, days, rs) ==
    IF ~hasTimeOffRules(rs) THEN startDate - days
    ELSE CountBackward(SkipBackward(startDate, rs), days, rs)

\* The counting loop of getWorkingDaysBetween: while (currentDate < endDate)
RECURSIVE CountWorkingDays(_, _, _)
CountWorkingDays(d, endDate, rs) ==
    IF d < endDate
    THEN (IF isNonWorkingDay(d, rs) THEN 0 ELSE 1) + CountWorkingDays(d + 1, endDate, rs)
    ELSE 0

\* Mutant of getWorkingDaysBetween: without time-off rules both end days count
getWorkingDaysBetween_Inclusive(startDate, endDate, rs) ==
    IF ~hasTimeOffRules(rs) THEN endDate - startDate + 1
    ELSE CountWorkingDays(startDate, endDate, rs)

getWorkingDaysBetween(startDate, endDate, rs) ==
    IF ~hasTimeOffRules(rs) THEN endDate - startDate
    ELSE CountWorkingDays(startDate, endDate, rs)

\* Mutant of SlackOfRule: the scope of a slack rule is not looked at
SlackOfRule_Unscoped(r, depType, sourceId, targetId) == r.days

\* One slack rule's contribution for an edge (the reduce callback)
SlackOfRule(r, depType, sourceId, targetId) ==
    IF r.dependencyTypes # {} /\ depType \notin r.dependencyTypes THEN 0
    ELSE IF r.betweenFeatures # {} /\ <<sourceId, targetId>> \notin r.betweenFeatures
         THEN 0
    ELSE r.days

RECURSIVE SumSlack(_, _, _, _, _)
SumSlack(rs, i, depType, sourceId, targetId) ==
    IF i > Len(rs) THEN 0
    ELSE (IF rs[i].type = "slack" /\ rs[i].enabled
          THEN SlackOfRule(rs[i], depType, sourceId, targetId) ELSE 0)
         + SumSlack(rs, i + 1, depType, sourceId, targetId)

getTotalSlackDays(rs, depType, sourceId, targetId) ==
    SumSlack(rs, 1, depType, sourceId, targetId)

\* The first index of a set of array indices (the one a for-of loop with an
\* early return stops at), 0 when the set is empty
FirstIndex(hits) ==
    IF hits = {} THEN 0 ELSE CHOOSE i \in hits : \A j \in hits : i <= j

\* The first enabled constraint rule that applies to the feature: <<config>>,
\* or <<>> for null.
getFeatureConstraint(featureId, rs) ==
    LET i == FirstIndex({k \in 1..Len(rs) :
                    /\ rs[k].type = "constraint" /\ rs[k].enabled
                    /\ rs[k].featureIds = {} \/ featureId \in rs[k].featureIds})
    IN  IF i = 0 THEN <<>> ELSE <<rs[i]>>

getLagDays(sourceId, targetId, rs) ==
    LET i == FirstIndex({k \in 1..Len(rs) :
                    /\ rs[k].type = "lag" /\ rs[k].enabled
                    /\ rs[k].sourceId = sourceId /\ rs[k].targetId = targetId})
    IN  IF i = 0 THEN 0 ELSE rs[i].days

\* <<startDay>> of the first enabled alignment rule that applies, <<>> for null
getAlignmentDay(featureId, rs) ==
    LET i == FirstIndex({k \in 1..Len(rs) :
                    /\ rs[k].type = "alignment" /\ rs[k].enabled
                    /\ rs[k].featureIds = {} \/ featureId \in rs[k].featureIds})
    IN  IF i = 0 THEN <<>> ELSE <<rs[i].startDay>>

\* Mutant of alignToWeekday: snaps back to the last occurrence of the weekday
alignToWeekday_Backward(d, targetWeekday) == d - ((getDay(d) - targetWeekday + 7) % 7)

alignToWeekday(d, targetWeekday) ==
    LET currentDay == getDay(d)
        daysUntilTarget == (targetWeekday - currentDay + 7) % 7
    IN  IF currentDay = targetWeekday THEN d
        ELSE d + (IF daysUntilTarget = 0 THEN 7 ELSE daysUntilTarget)


-----------------------------------------------------------------------------
(* Features, dependencies and the two adjacency maps *)

\* A resource (owner or group) is {id, name}; NoResource stands for a feature
\* that has none (undefined)
NoResource == [id |-> "", name |-> ""]

Resource(i, n) == [id |-> i, name |-> n]

\* A feature without owner and group; its name is its id
Feature(i, s, e) ==
    [id |-> i, name |-> i, startAt |-> s, endAt |-> e, owner |-> NoResource, group |-> NoResource]

FeatureWithOwner(i, s, e, o, g) == [Feature(i, s, e) EXCEPT !.owner = o, !.group = g]

Dep(s, t, ty) == [sourceId |-> s, targetId |-> t, type |-> ty]

FeatureIds(fs) == {fs[i].id : i \in 1..Len(fs)}

\* Mutant of CopyOfFeature: the map holds the caller's object itself
CopyOfFeature_SameObject(f) ==
    [id |-> f.id, name |-> f.name, startAt |-> f.startAt, endAt |-> f.endAt,
     owner |-> f.owner, group |-> f.group, own |-> FALSE]

\* { ...f }: a new object with the fields of f.  own tells the engine's own
\* objects from the caller's: a write to an object that is not the engine's
\* own is a write to the caller's feature.
CopyOfFeature(f) ==
    [id |-> f.id, name |-> f.name, startAt |-> f.startAt, endAt |-> f.endAt,
     owner |-> f.owner, group |-> f.group, own |-> TRUE]

\* new Map(features.map((f) => [f.id, { ...f }])): copies keyed by id, the
\* last entry of an id winning
FeaturesMap(fs) ==
    [id \in FeatureIds(fs) |->
        LET last == CHOOSE i \in 1..Len(fs) :
                        /\ fs[i].id = id
                        /\ \A j \in 1..Len(fs) : fs[j].id = id => j <= i
        IN  CopyOfFeature(fs[last])]

\* The caller's features once the engine has written the dates of map: the
\* features whose map object is not the engine's own carry the map's dates
CallerObjects(fs, map) ==
    [i \in 1..Len(fs) |->
        IF fs[i].id \in DOMAIN map /\ ~map[fs[i].id].own
        THEN [fs[i] EXCEPT !.startAt = map[fs[i].id].startAt,
                           !.endAt = map[fs[i].id].endAt]
        ELSE fs[i]]

\* depGraph.get(id) || []: the dependencies leaving id, in array order
buildDependencyGraph(deps, id) == SelectSeq(deps, LAMBDA d : d.sourceId = id)

\* reverseGraph.get(id) || []: the dependencies entering id, in array order
buildReverseDependencyGraph(deps, id) == SelectSeq(deps, LAMBDA d : d.targetId = id)

-----------------------------------------------------------------------------
(* topologicalSort: depth-first walk from the roots, each id appended to the *)
(* result when it is first visited, before its dependents are walked.       *)
(* The walk state is [visited, result].                                     *)

RECURSIVE visit(_, _, _)
RECURSIVE visitTargets(_, _, _, _)

visit(id, st, deps) ==
    IF id \in st.visited THEN st
    ELSE visitTargets(buildDependencyGraph(deps, id), 1,
                      [visited |-> st.visited \cup {id},
                       result |-> Append(st.result, id)],
                      deps)

visitTargets(outgoing, i, st, deps) ==
    IF i > Len(outgoing) THEN st
    ELSE visitTargets(outgoing, i + 1, visit(outgoing[i].targetId, st, deps), deps)

RECURSIVE visitEach(_, _, _, _)
visitEach(ids, i, st, deps) ==
    IF i > Len(ids) THEN st
    ELSE visitEach(ids, i + 1, visit(ids[i], st, deps), deps)

FeatureIdSeq(fs) == [i \in 1..Len(fs) |-> fs[i].id]

topologicalSort(fs, deps) ==
    LET hasIncoming == {deps[i].targetId : i \in 1..Len(deps)}
        roots == FeatureIdSeq(SelectSeq(fs, LAMBDA f : f.id \notin hasIncoming))
        fromRoots == visitEach(roots, 1, [visited |-> {}, result |-> <<>>], deps)
        \* the remaining features (cycles, disconnected)
        all == visitEach(FeatureIdSeq(fs), 1, fromRoots, deps)
    IN  all.result


-----------------------------------------------------------------------------
(* recalculateSchedule.  A nullable Date is <<>> (null) or <<d>>; a nullable *)
(* FeatureUpdate likewise.  The helpers that mutate the working copy return *)
(* [map, update]: the featuresMap after the call and the update or null.    *)

Update(i, s, e) == [id |-> i, startAt |-> s, endAt |-> e]

getConstraintStartWithRules(source, targetWorkingDays, depType, rs, sourceId, targetId) ==
    LET slackDays == getTotalSlackDays(rs, depType, sourceId, targetId)
    IN  CASE depType = "FS" -> addWorkingDays(source.endAt, slackDays, rs)
          [] depType = "SS" -> addWorkingDays(source.startAt, slackDays, rs)
          [] depType = "FF" ->
                subtractWorkingDays(addWorkingDays(source.endAt, slackDays, rs),
                                    targetWorkingDays, rs)
          [] depType = "SF" ->
                subtractWorkingDays(addWorkingDays(source.startAt, slackDays, rs),
                                    targetWorkingDays, rs)

getConstraintStart(source, targetDuration, depType) ==
    CASE depType = "FS" -> source.endAt
      [] depType = "SS" -> source.startAt
      [] depType = "FF" -> source.endAt - targetDuration
      [] depType = "SF" -> source.startAt - targetDuration

\* The candidate of one incoming edge, lag applied
MinStartWithRules(source, workingDays, dep, rs) ==
    LET base == getConstraintStartWithRules(source, workingDays, dep.type, rs,
                                            dep.sourceId, dep.targetId)
        lagDays == getLagDays(dep.sourceId, dep.targetId, rs)
    IN  IF lagDays # 0 THEN addWorkingDays(base, lagDays, rs) ELSE base

\* Mutant of MoreRestrictive: the first candidate stays
MoreRestrictive_FirstWins(constraintStart, minStart) ==
    IF constraintStart = <<>> THEN <<minStart>> ELSE constraintStart

\* if (!constraintStart || minStart > constraintStart) constraintStart = minStart
MoreRestrictive(constraintStart, minStart) ==
    IF constraintStart = <<>> \/ minStart > constraintStart[1]
    THEN <<minStart>> ELSE constraintStart

RECURSIVE FindWithRulesFrom(_, _, _, _, _, _)
FindWithRulesFrom(i, workingDays, incomingDeps, map, rs, constraintStart) ==
    IF i > Len(incomingDeps) THEN constraintStart
    ELSE LET dep == incomingDeps[i]
         IN  IF dep.sourceId \notin DOMAIN map
             THEN FindWithRulesFrom(i + 1, workingDays, incomingDeps, map, rs,
                                    constraintStart)
             ELSE FindWithRulesFrom(i + 1, workingDays, incomingDeps, map, rs,
                     MoreRestrictive(constraintStart,
                         MinStartWithRules(map[dep.sourceId], workingDays, dep, rs)))

findConstraintStartWithRules(feature, incomingDeps, map, rs) ==
    FindWithRulesFrom(1, getWorkingDaysBetween(feature.startAt, feature.endAt, rs),
                      incomingDeps, map, rs, <<>>)

RECURSIVE FindFrom(_, _, _, _, _)
FindFrom(i, duration, incomingDeps, map, constraintStart) ==
    IF i > Len(incomingDeps) THEN constraintStart
    ELSE LET dep == incomingDeps[i]
         IN  IF dep.sourceId \notin DOMAIN map
             THEN FindFrom(i + 1, duration, incomingDeps, map, constraintStart)
             ELSE FindFrom(i + 1, duration, incomingDeps, map,
                     MoreRestrictive(constraintStart,
                         getConstraintStart(map[dep.sourceId], duration, dep.type)))

findConstraintStart(feature, incomingDeps, map) ==
    FindFrom(1, feature.endAt - feature.startAt, incomingDeps, map, <<>>)

\* The feature's dates set in the working copy
WithDates(map, featureId, s, e) ==
    [map EXCEPT ![featureId] = [@ EXCEPT !.startAt = s, !.endAt = e]]

\* Mutant of applyConstraintWithRules: the end is the aligned start plus the
\* calendar-day length of the feature
applyConstraintWithRules_CalendarEnd(map, constraintStart, featureId, rs) ==
    LET feature == map[featureId]
        alignmentDay == getAlignmentDay(featureId, rs)
        alignedStart == IF alignmentDay # <<>>
                        THEN alignToWeekday(constraintStart, alignmentDay[1])
                        ELSE constraintStart
        newEndAt == alignedStart + (feature.endAt - feature.startAt)
    IN  IF feature.startAt # alignedStart
        THEN [map |-> WithDates(map, featureId, alignedStart, newEndAt),
              update |-> <<Update(featureId, alignedStart, newEndAt)>>]
        ELSE [map |-> map, update |-> <<>>]

applyConstraintWithRules(map, constraintStart, featureId, rs) ==
    LET feature == map[featureId]
        workingDays == getWorkingDaysBetween(feature.startAt, feature.endAt, rs)
        alignmentDay == getAlignmentDay(featureId, rs)
        alignedStart == IF alignmentDay # <<>>
                        THEN alignToWeekday(constraintStart, alignmentDay[1])
                        ELSE constraintStart
        newEndAt == addWorkingDays(alignedStart, workingDays, rs)
    IN  IF feature.startAt # alignedStart
        THEN [map |-> WithDates(map, featureId, alignedStart, newEndAt),
              update |-> <<Update(featureId, alignedStart, newEndAt)>>]
        ELSE [map |-> map, update |-> <<>>]

\* Mutant of applyConstraint: the start moves, the end stays where it was
applyConstraint_KeepEnd(map, constraintStart, featureId) ==
    LET feature == map[featureId]
    IN  IF feature.startAt # constraintStart
        THEN [map |-> WithDates(map, featureId, constraintStart, feature.endAt),
              update |-> <<Update(featureId, constraintStart, feature.endAt)>>]
        ELSE [map |-> map, update |-> <<>>]

applyConstraint(map, constraintStart, featureId) ==
    LET feature == map[featureId]
        duration == feature.endAt - feature.startAt
        newEndAt == constraintStart + duration
    IN  IF feature.startAt # constraintStart
        THEN [map |-> WithDates(map, featureId, constraintStart, newEndAt),
              update |-> <<Update(featureId, constraintStart, newEndAt)>>]
        ELSE [map |-> map, update |-> <<>>]

\* Mutant of processFeatureWithRules: only fixed_both holds a feature in place
processFeatureWithRules_OnlyFixedBoth(featureId, map, deps, rs) ==
    LET none == [map |-> map, update |-> <<>>]
        featureConstraint == getFeatureConstraint(featureId, rs)
        incomingDeps == buildReverseDependencyGraph(deps, featureId)
        constraintStart ==
            findConstraintStartWithRules(map[featureId], incomingDeps, map, rs)
    IN  IF featureId \notin DOMAIN map THEN none
        ELSE IF featureConstraint # <<>>
                /\ featureConstraint[1].constraintType = "fixed_both" THEN none
        ELSE IF Len(incomingDeps) = 0 THEN none
        ELSE IF constraintStart = <<>> THEN none
        ELSE applyConstraintWithRules(map, constraintStart[1], featureId, rs)

processFeatureWithRules(featureId, map, deps, rs) ==
    LET none == [map |-> map, update |-> <<>>]
        featureConstraint == getFeatureConstraint(featureId, rs)
        incomingDeps == buildReverseDependencyGraph(deps, featureId)
        constraintStart ==
            findConstraintStartWithRules(map[featureId], incomingDeps, map, rs)
    IN  IF featureId \notin DOMAIN map THEN none
        ELSE IF featureConstraint # <<>>
                /\ featureConstraint[1].constraintType
                      \in {"fixed_both", "fixed_start", "fixed_end"} THEN none
        ELSE IF Len(incomingDeps) = 0 THEN none
        ELSE IF constraintStart = <<>> THEN none
        ELSE applyConstraintWithRules(map, constraintStart[1], featureId, rs)

processFeatureLegacy(featureId, map, deps) ==
    LET none == [map |-> map, update |-> <<>>]
        incomingDeps == buildReverseDependencyGraph(deps, featureId)
        constraintStart == findConstraintStart(map[featureId], incomingDeps, map)
    IN  IF featureId \notin DOMAIN map THEN none
        ELSE IF Len(incomingDeps) = 0 THEN none
        ELSE IF constraintStart = <<>> THEN none
        ELSE applyConstraint(map, constraintStart[1], featureId)

\* The loop over the processing order, from position i on
RECURSIVE RecalculateFrom(_, _, _, _, _, _)
RecalculateFrom(i, ord, map, deps, enabledRules, ups) ==
    IF i > Len(ord) THEN [map |-> map, updates |-> ups]
    ELSE LET r == IF Len(enabledRules) > 0
                  THEN processFeatureWithRules(ord[i], map, deps, enabledRules)
                  ELSE processFeatureLegacy(ord[i], map, deps)
         IN  RecalculateFrom(i + 1, ord, r.map, deps, enabledRules, ups \o r.update)

\* The call: the working map it ends with and the updates it returns
recalculateScheduleRun(fs, deps, rs) ==
    RecalculateFrom(1, topologicalSort(fs, deps), FeaturesMap(fs), deps,
                    EnabledRules(rs), <<>>)

recalculateSchedule(fs, deps, rs) == recalculateScheduleRun(fs, deps, rs).updates


-----------------------------------------------------------------------------
(* The host: it calls the engine on its current features and applies the    *)
(* returned updates to them (handleRecalculateSchedule).                    *)

\* updates.find((u) => u.id === id): index of the first update of id, 0 if none
FindUpdate(ups, id) == FirstIndex({i \in 1..Len(ups) : ups[i].id = id})

\* setFeatures((prev) => prev.map(...)): each feature takes the dates of the
\* first update carrying its id
ApplyUpdates(fs, ups) ==
    [i \in 1..Len(fs) |->
        LET u == FindUpdate(ups, fs[i].id)
        IN  IF u = 0 THEN fs[i]
            ELSE [fs[i] EXCEPT !.startAt = ups[u].startAt, !.endAt = ups[u].endAt]]

\* No calendar operation in progress
NoCal == [pc |-> "idle", op |-> "add", startDate |-> 0, days |-> 0,
          currentDate |-> 0, counted |-> 0]

\* No arrow is being routed
NoArrow ==
    [pc |-> "idle", dependency |-> <<>>, featurePositions |-> <<>>, endpoints |-> <<>>,
     obstacles |-> {}, path |-> <<>>]

\* The Gantt view is not mounted
NoView ==
    [pendingChanges |-> <<>>, originalFeaturesRef |-> <<>>, selectedChanges |-> {},
     isVerificationOpen |-> FALSE, stored |-> <<>>, handler |-> "none", result |-> "none"]

\* No autoSchedule call in progress
NoBfs ==
    [pc |-> "idle", map |-> <<>>, queue |-> <<>>, visited |-> {}, source |-> "", out |-> <<>>,
     expanded |-> <<>>]

\* A call of recalculateSchedule by the host, which applies the updates.
\* Engine calls are synchronous: none starts while autoSchedule is running.
Recalculate ==
    /\ calls < MaxCalls
    /\ bfs.pc \notin {"loop", "edges"}
    /\ LET run == recalculateScheduleRun(features, dependencies, rules)
       IN  /\ updates' = run.updates
           /\ features' = ApplyUpdates(features, run.updates)
           /\ input' = CallerObjects(features, run.map)
    /\ order' = topologicalSort(features, dependencies)
    /\ calls' = calls + 1
    /\ UNCHANGED <<dependencies, rules, moved, warnings, cal, bfs, arrow, view>>


-----------------------------------------------------------------------------
(* Inputs.  Two families of inputs to recalculateSchedule:                  *)
(*  - graph inputs: three features, up to MaxDeps dependencies between any  *)
(*    of them (cycles included), no rules;                                  *)
(*  - rule inputs: a predecessor A on every weekday, a dependent B, one      *)
(*    dependency A -> B of any type, and a rules array.                     *)

Ids == {"A", "B", "C"}

\* Ordered pairs of distinct features
Pairs == {p \in Ids \X Ids : p[1] # p[2]}

\* Dependency arrays of length n: no pair twice; arrays of three and more
\* dependencies carry one type throughout
DepArrays(n) ==
    {ds \in [1..n -> {Dep(p[1], p[2], ty) : p \in Pairs, ty \in DepTypes}] :
        /\ \A i, j \in 1..n :
              i < j => <<ds[i].sourceId, ds[i].targetId>> # <<ds[j].sourceId, ds[j].targetId>>
        /\ n >= 3 => \A i \in 1..n : ds[i].type = ds[1].type}

GraphDates == {d \in (0..MaxStart) \X (0..MaxDur) : TRUE}

InitEngine ==
    /\ moved = <<>>
    /\ input = <<>>
    /\ order = <<>>
    /\ updates = <<>>
    /\ warnings = <<>>
    /\ arrow = NoArrow
    /\ view = NoView
    /\ calls = 0
    /\ cal = NoCal
    /\ bfs = NoBfs

InitGraph ==
    /\ \E a, b, c \in GraphDates :
          features = <<Feature("A", a[1], a[1] + a[2]),
                       Feature("B", b[1], b[1] + b[2]),
                       Feature("C", c[1], c[1] + c[2])>>
    /\ \E n \in 0..MaxDeps : dependencies \in DepArrays(n)
    /\ rules = <<>>
    /\ InitEngine

SpecGraph == InitGraph /\ [][Recalculate]_vars


-----------------------------------------------------------------------------
(* Rule inputs.  The rules array is the concatenation of one choice per rule *)
(* kind.  Every choice leaves working days in every week, so the calendar   *)
(* scans of these inputs end (the scans themselves are SpecCalendar's).     *)

Weekend == HolidayRule(TRUE, {0, 6}, {})

\* no holidays; weekends; weekends and Mon 6 Jan; weekends and every 1 Jan
HolidayChoices ==
    { <<>>,
      <<Weekend>>,
      <<HolidayRule(TRUE, {0, 6}, {8})>>,
      <<Weekend, RecurringHolidayRule(TRUE, 1, 1)>> }

\* no blackout; Thu 2 Jan .. Fri 3 Jan
BlackoutChoices == { <<>>, <<BlackoutRule(TRUE, 4, 5)>> }

\* slack and lag rules, scoped and unscoped, enabled and disabled
OffsetChoices ==
    { <<>>,
      <<SlackRule(TRUE, 2, {}, {})>>,
      <<SlackRule(TRUE, 1, {"FS", "SS"}, {}), SlackRule(TRUE, 1, {}, {<<"A", "B">>})>>,
      <<SlackRule(FALSE, 2, {}, {}), SlackRule(TRUE, 1, {}, {<<"B", "A">>})>>,
      <<LagRule(TRUE, 1, "A", "B")>>,
      <<LagRule(TRUE, -1, "A", "B")>>,
      <<LagRule(TRUE, 2, "B", "A"), LagRule(TRUE, -2, "A", "B"), SlackRule(TRUE, 1, {}, {})>>,
      <<SlackRule(TRUE, 2, {"SS", "FF"}, {}), SlackRule(TRUE, 1, {"FS", "SF"}, {<<"A", "B">>})>> }

\* no alignment; every feature on Mondays; B on Saturdays
AlignmentChoices ==
    { <<>>,
      <<AlignmentRule(TRUE, 1, {})>>,
      <<AlignmentRule(TRUE, 6, {"B"})>> }

ConstraintChoices ==
    { <<ConstraintRule(TRUE, "fixed_end", {"B"})>>,
      <<ConstraintRule(TRUE, "fixed_start", {})>>,
      <<ConstraintRule(TRUE, "fixed_both", {"B"})>>,
      <<ConstraintRule(TRUE, "fixed_start", {"A"})>>,
      <<ConstraintRule(FALSE, "fixed_both", {}), SlackRule(TRUE, 1, {}, {})>>,
      <<ConstraintRule(TRUE, "fixed_both", {"A"}), ConstraintRule(TRUE, "fixed_end", {"B"})>> }

RuleArrays ==
    {h \o b \o o \o a : h \in HolidayChoices, b \in BlackoutChoices,
                       o \in OffsetChoices, a \in AlignmentChoices}
    \cup {h \o c : h \in {<<>>, <<Weekend>>}, c \in ConstraintChoices}

\* The start days of the dependent B: Mon 30 Dec, Fri 3 Jan, Mon 6 Jan
DependentStarts == {1, 5, 8}

InitRules ==
    /\ \E as \in 0..6, ad \in 0..MaxDur, bs \in DependentStarts, bd \in 0..MaxWorkDur :
          features = <<Feature("A", as, as + ad), Feature("B", bs, bs + bd)>>
    /\ \E ty \in DepTypes : dependencies = <<Dep("A", "B", ty)>>
    /\ rules \in RuleArrays
    /\ InitEngine

Spec == InitRules /\ [][Recalculate]_vars

-----------------------------------------------------------------------------
(* The calendar operations step by step.  addWorkingDays (op "add") and      *)
(* subtractWorkingDays (op "subtract") are the same two loops, run forward  *)
(* and backward.  cal.pc: "call" (entered), "skip" (first loop), "count"    *)
(* (second loop), "done" (returned, cal.currentDate being the result).      *)

\* addDays(currentDate, 1) or addDays(currentDate, -1)
StepDay(c) == IF c.op = "add" THEN c.currentDate + 1 ELSE c.currentDate - 1

\* Days the scan has moved away from the start date
Scanned(c) ==
    IF c.currentDate >= c.startDate THEN c.currentDate - c.startDate
    ELSE c.startDate - c.currentDate

\* The model follows a scan for MaxScan days.  A rule set that leaves a
\* weekday working ends every scan of the calendar inputs earlier: at most a
\* week and the dated rules to skip, at most a week per day to count.
MaxScan == 7 * (MaxDays + 2)

\* hasTimeOffRules is false: plain addDays, no loop
CalPlain ==
    /\ cal.pc = "call"
    /\ ~hasTimeOffRules(rules)
    /\ cal' = [cal EXCEPT !.pc = "done",
                          !.currentDate = IF cal.op = "add" THEN cal.startDate + cal.days
                                          ELSE cal.startDate - cal.days]
    /\ UNCHANGED <<features, dependencies, rules, moved, input, order, updates,
                   warnings, calls, bfs, arrow, view>>

\* let currentDate = new Date(startDate); let daysAdded = 0
CalEnter ==
    /\ cal.pc = "call"
    /\ hasTimeOffRules(rules)
    /\ cal' = [cal EXCEPT !.pc = "skip", !.currentDate = cal.startDate, !.counted = 0]
    /\ UNCHANGED <<features, dependencies, rules, moved, input, order, updates,
                   warnings, calls, bfs, arrow, view>>

\* One iteration of while (isNonWorkingDay(currentDate, rules))
CalSkip ==
    /\ cal.pc = "skip"
    /\ isNonWorkingDay(cal.currentDate, rules)
    /\ Scanned(cal) < MaxScan
    /\ cal' = [cal EXCEPT !.currentDate = StepDay(cal)]
    /\ UNCHANGED <<features, dependencies, rules, moved, input, order, updates,
                   warnings, calls, bfs, arrow, view>>

\* The first loop's exit
CalSkipped ==
    /\ cal.pc = "skip"
    /\ ~isNonWorkingDay(cal.currentDate, rules)
    /\ cal' = [cal EXCEPT !.pc = "count"]
    /\ UNCHANGED <<features, dependencies, rules, moved, input, order, updates,
                   warnings, calls, bfs, arrow, view>>

\* Mutant of CalCount: every day stepped over is counted, working or not
CalCount_EveryDay ==
    /\ cal.pc = "count"
    /\ cal.counted < cal.days
    /\ Scanned(cal) < MaxScan
    /\ cal' = [cal EXCEPT !.currentDate = StepDay(cal), !.counted = @ + 1]
    /\ UNCHANGED <<features, dependencies, rules, moved, input, order, updates,
                   warnings, calls, bfs, arrow, view>>

\* One iteration of while (daysAdded < days)
CalCount ==
    /\ cal.pc = "count"
    /\ cal.counted < cal.days
    /\ Scanned(cal) < MaxScan
    /\ cal' = [cal EXCEPT !.currentDate = StepDay(cal),
                          !.counted = IF isNonWorkingDay(StepDay(cal), rules)
                                      THEN @ ELSE @ + 1]
    /\ UNCHANGED <<features, dependencies, rules, moved, input, order, updates,
                   warnings, calls, bfs, arrow, view>>

\* return currentDate
CalReturn ==
    /\ cal.pc = "count"
    /\ cal.counted >= cal.days
    /\ cal' = [cal EXCEPT !.pc = "done"]
    /\ UNCHANGED <<features, dependencies, rules, moved, input, order, updates,
                   warnings, calls, bfs, arrow, view>>

CalendarNext ==
    \/ CalPlain
    \/ CalEnter
    \/ CalSkip
    \/ CalSkipped
    \/ CalCount
    \/ CalReturn

\* Calendar inputs: no time-off rule; weekends; weekends and a blackout;
\* Monday to Friday off; every weekday off in one rule; every weekday off
\* across two rules; the every-weekday rule disabled
CalendarRuleArrays ==
    { <<>>,
      <<Weekend>>,
      <<Weekend, BlackoutRule(TRUE, 4, 5)>>,
      <<HolidayRule(TRUE, 1..5, {})>>,
      <<HolidayRule(TRUE, 0..6, {})>>,
      <<HolidayRule(TRUE, {0}, {}), HolidayRule(TRUE, 1..6, {})>>,
      <<HolidayRule(FALSE, 0..6, {}), HolidayRule(TRUE, {0, 6}, {3})>> }

InitCalendar ==
    /\ rules \in CalendarRuleArrays
    /\ \E o \in {"add", "subtract"}, d \in 0..6, n \in 0..MaxDays :
          cal = [pc |-> "call", op |-> o, startDate |-> d, days |-> n,
                 currentDate |-> d, counted |-> 0]
    /\ features = <<>>
    /\ dependencies = <<>>
    /\ moved = <<>>
    /\ input = <<>>
    /\ order = <<>>
    /\ updates = <<>>
    /\ warnings = <<>>
    /\ arrow = NoArrow
    /\ view = NoView
    /\ calls = 0
    /\ bfs = NoBfs

SpecCalendar == InitCalendar /\ [][CalendarNext]_vars

-----------------------------------------------------------------------------
(* autoSchedule step by step.  bfs.pc: "call" (entered), "loop" (at the     *)
(* head of the while loop), "edges" (in the for loop over the outgoing      *)
(* dependencies bfs.out of bfs.source), "done" (returned).  The local       *)
(* updates array is the variable updates; a walk state is                   *)
(* [map, updates, queue].  bfs.expanded is the log of the ids whose         *)
(* outgoing dependencies the call has gone through, in order.               *)

\* Mutant of calculateTargetDates: the duration is taken from the source
calculateTargetDates_SourceDuration(source, target, depType) ==
    LET duration == source.endAt - source.startAt
    IN  CASE depType = "FS" -> [startAt |-> source.endAt, endAt |-> source.endAt + duration]
          [] depType = "SS" -> [startAt |-> source.startAt, endAt |-> source.startAt + duration]
          [] depType = "FF" -> [startAt |-> source.endAt - duration, endAt |-> source.endAt]
          [] depType = "SF" -> [startAt |-> source.startAt - duration, endAt |-> source.startAt]

calculateTargetDates(source, target, depType) ==
    LET duration == target.endAt - target.startAt
    IN  CASE depType = "FS" -> [startAt |-> source.endAt, endAt |-> source.endAt + duration]
          [] depType = "SS" -> [startAt |-> source.startAt, endAt |-> source.startAt + duration]
          [] depType = "FF" -> [startAt |-> source.endAt - duration, endAt |-> source.endAt]
          [] depType = "SF" -> [startAt |-> source.startAt - duration, endAt |-> source.startAt]

\* Sets the dates of the feature in the map and appends the update
updateFeatureDates(st, featureId, newDates) ==
    [st EXCEPT !.map = WithDates(st.map, featureId, newDates.startAt, newDates.endAt),
               !.updates = Append(@, Update(featureId, newDates.startAt, newDates.endAt))]

processDependency(st, dep) ==
    LET source == st.map[dep.sourceId]
        target == st.map[dep.targetId]
        calculatedDates == calculateTargetDates(source, target, dep.type)
    IN  IF target.startAt # calculatedDates.startAt \/ target.endAt # calculatedDates.endAt
        THEN [updateFeatureDates(st, dep.targetId, calculatedDates)
                 EXCEPT !.queue = Append(@, dep.targetId)]
        ELSE st

\* The moved feature records the first update only when its dates change
MoveFeature_OnlyIfChanged(st, movedFeatureId, newDates) ==
    IF /\ movedFeatureId \in DOMAIN st.map
       /\ \/ st.map[movedFeatureId].startAt # newDates.startAt
          \/ st.map[movedFeatureId].endAt # newDates.endAt
    THEN updateFeatureDates(st, movedFeatureId, newDates)
    ELSE st

\* if (movedFeature) updateFeatureDates(movedFeature, newDates, updates)
MoveFeature(st, movedFeatureId, newDates) ==
    IF movedFeatureId \in DOMAIN st.map
    THEN updateFeatureDates(st, movedFeatureId, newDates)
    ELSE st

\* for (const dep of outgoingDeps): the dependencies out of sourceId left to
\* process; one with its source or its target not in the map is passed over
RECURSIVE ProcessOutgoing(_, _, _)
ProcessOutgoing(st, sourceId, out) ==
    IF Len(out) = 0 THEN st
    ELSE ProcessOutgoing(IF /\ sourceId \in DOMAIN st.map
                            /\ Head(out).targetId \in DOMAIN st.map
                         THEN processDependency(st, Head(out))
                         ELSE st,
                         sourceId, Tail(out))

\* while (queue.length > 0): the whole loop, returning the updates
RECURSIVE AutoScheduleLoop(_, _, _)
AutoScheduleLoop(st, visited, deps) ==
    IF Len(st.queue) = 0 THEN st.updates
    ELSE LET currentId == Head(st.queue)
             rest == [st EXCEPT !.queue = Tail(@)]
         IN  IF currentId \in visited
             THEN AutoScheduleLoop(rest, visited, deps)
             ELSE AutoScheduleLoop(
                      ProcessOutgoing(rest, currentId,
                                      buildDependencyGraph(deps, currentId)),
                      visited \cup {currentId}, deps)

\* autoSchedule as a function of its arguments: the updates it returns
autoSchedule(movedFeatureId, newDates, fs, deps) ==
    AutoScheduleLoop(
        [MoveFeature([map |-> FeaturesMap(fs), updates |-> <<>>, queue |-> <<>>],
                     movedFeatureId, newDates)
            EXCEPT !.queue = <<movedFeatureId>>],
        {}, deps)

\* Where the call stands once the for loop has the dependencies out left
AfterEdge(out) == IF Len(out) = 0 THEN "loop" ELSE "edges"

\* The call up to the while loop
AutoScheduleEnter ==
    /\ bfs.pc = "call"
    /\ LET st == MoveFeature([map |-> FeaturesMap(features), updates |-> <<>>, queue |-> <<>>],
                             moved.id, moved)
       IN  /\ bfs' = [pc |-> "loop", map |-> st.map, queue |-> <<moved.id>>,
                      visited |-> {}, source |-> "", out |-> <<>>, expanded |-> <<>>]
           /\ updates' = st.updates
           /\ input' = CallerObjects(features, st.map)
    /\ order' = <<>>
    /\ UNCHANGED <<features, dependencies, rules, moved, warnings, calls, cal, arrow, view>>

\* An iteration of the while loop that dequeues an id already visited
AutoScheduleSkip ==
    /\ bfs.pc = "loop"
    /\ Len(bfs.queue) > 0
    /\ Head(bfs.queue) \in bfs.visited
    /\ bfs' = [bfs EXCEPT !.queue = Tail(@)]
    /\ UNCHANGED <<features, dependencies, rules, moved, input, order, updates,
                   warnings, calls, cal, arrow, view>>

\* Mutant of AutoScheduleExpand: the visited set is not consulted
AutoScheduleExpand_Revisit ==
    /\ bfs.pc = "loop"
    /\ Len(bfs.queue) > 0
    /\ LET currentId == Head(bfs.queue)
           outgoingDeps == buildDependencyGraph(dependencies, currentId)
       IN  bfs' = [bfs EXCEPT !.pc = AfterEdge(outgoingDeps),
                              !.queue = Tail(@),
                              !.visited = @ \cup {currentId},
                              !.source = currentId,
                              !.out = outgoingDeps,
                              !.expanded = Append(@, currentId)]
    /\ UNCHANGED <<features, dependencies, rules, moved, input, order, updates,
                   warnings, calls, cal, arrow, view>>

\* An iteration of the while loop that dequeues a new id: it is marked
\* visited and the for loop over its outgoing dependencies begins
AutoScheduleExpand ==
    /\ bfs.pc = "loop"
    /\ Len(bfs.queue) > 0
    /\ Head(bfs.queue) \notin bfs.visited
    /\ LET currentId == Head(bfs.queue)
           outgoingDeps == buildDependencyGraph(dependencies, currentId)
       IN  bfs' = [bfs EXCEPT !.pc = AfterEdge(outgoingDeps),
                              !.queue = Tail(@),
                              !.visited = @ \cup {currentId},
                              !.source = currentId,
                              !.out = outgoingDeps,
                              !.expanded = Append(@, currentId)]
    /\ UNCHANGED <<features, dependencies, rules, moved, input, order, updates,
                   warnings, calls, cal, arrow, view>>

\* An iteration of the for loop with source and target in the map
AutoScheduleEdge ==
    /\ bfs.pc = "edges"
    /\ bfs.source \in DOMAIN bfs.map
    /\ Head(bfs.out).targetId \in DOMAIN bfs.map
    /\ LET st == processDependency([map |-> bfs.map, updates |-> updates,
                                    queue |-> bfs.queue], Head(bfs.out))
       IN  /\ bfs' = [bfs EXCEPT !.pc = AfterEdge(Tail(bfs.out)), !.map = st.map,
                                 !.queue = st.queue, !.out = Tail(@)]
           /\ updates' = st.updates
           /\ input' = CallerObjects(input, st.map)
    /\ UNCHANGED <<features, dependencies, rules, moved, order, warnings, calls, cal, arrow, view>>

\* An iteration of the for loop whose source or target is not in the map
AutoScheduleIgnoreEdge ==
    /\ bfs.pc = "edges"
    /\ \/ bfs.source \notin DOMAIN bfs.map
       \/ Head(bfs.out).targetId \notin DOMAIN bfs.map
    /\ bfs' = [bfs EXCEPT !.pc = AfterEdge(Tail(bfs.out)), !.out = Tail(@)]
    /\ UNCHANGED <<features, dependencies, rules, moved, input, order, updates,
                   warnings, calls, cal, arrow, view>>

\* The queue is empty: return updates
AutoScheduleReturn ==
    /\ bfs.pc = "loop"
    /\ Len(bfs.queue) = 0
    /\ bfs' = [bfs EXCEPT !.pc = "done"]
    /\ calls' = calls + 1
    /\ UNCHANGED <<features, dependencies, rules, moved, input, order, updates,
                   warnings, cal, arrow, view>>

AutoScheduleNext ==
    \/ AutoScheduleEnter
    \/ AutoScheduleSkip
    \/ AutoScheduleExpand
    \/ AutoScheduleEdge
    \/ AutoScheduleIgnoreEdge
    \/ AutoScheduleReturn

\* Move inputs.  The moved feature is A, or Z, an id no feature carries.
\* What A's dates were before the move plays no part; those of B and C and
\* the new dates vary.  The dependencies are a graph over A, B, C, or one of
\* the arrays with a dependency from a feature to itself or with an end that
\* is no feature.
MovedIds == {"A", "Z"}

NewDates == {<<0, MaxDur>>} \cup {d \in {MaxStart + 1} \X (0..MaxDur) : TRUE}

LaterDates == {d \in {MaxStart} \X (0..MaxDur) : TRUE}

SpecialDepArrays ==
    UNION { { <<Dep("A", "A", t)>>,
              <<Dep("A", "A", t), Dep("A", "B", u)>>,
              <<Dep("A", "B", t), Dep("B", "B", u), Dep("B", "C", t)>>,
              <<Dep("A", "Z", t), Dep("A", "B", u)>>,
              <<Dep("Z", "B", t)>>,
              <<Dep("Z", "B", t), Dep("A", "C", u)>>,
              <<Dep("A", "B", t), Dep("Z", "B", u)>>,
              <<Dep("A", "B", t), Dep("B", "Z", u), Dep("Z", "C", t)>> }
            : t \in DepTypes, u \in DepTypes }

MoveDepArrays(movedId) ==
    SpecialDepArrays
    \cup UNION {DepArrays(n) : n \in 0..(IF movedId = "A" THEN MaxDeps ELSE 1)}

InitAuto ==
    /\ \E b \in GraphDates, c \in LaterDates :
          features = <<Feature("A", 0, MaxDur),
                       Feature("B", b[1], b[1] + b[2]),
                       Feature("C", c[1], c[1] + c[2])>>
    /\ \E id \in MovedIds, d \in NewDates :
          /\ moved = Update(id, d[1], d[1] + d[2])
          /\ dependencies \in MoveDepArrays(id)
    /\ rules = <<>>
    /\ input = <<>>
    /\ order = <<>>
    /\ updates = <<>>
    /\ warnings = <<>>
    /\ arrow = NoArrow
    /\ view = NoView
    /\ calls = 0
    /\ cal = NoCal
    /\ bfs = [NoBfs EXCEPT !.pc = "call"]

SpecAuto == InitAuto /\ [][AutoScheduleNext]_vars

\* The call is synchronous: it keeps taking its next step
SpecAutoLive == SpecAuto /\ WF_vars(AutoScheduleNext)

-----------------------------------------------------------------------------
(* checkCapacity *)

ResourceOf(feature, groupBy) == IF groupBy = "owner" THEN feature.owner ELSE feature.group

\* Index of the group of a resource id in a sequence of groups (0: none)
GroupIndex(groups, id) == FirstIndex({k \in 1..Len(groups) : groups[k].id = id})

\* The Map of groups as a sequence in insertion order, each group
\* [id, name, features]; from the i-th feature on
RECURSIVE GroupFrom(_, _, _, _)
GroupFrom(fs, groupBy, i, groups) ==
    IF i > Len(fs) THEN groups
    ELSE LET feature == fs[i]
             resource == ResourceOf(feature, groupBy)
             k == GroupIndex(groups, resource.id)
         IN  IF resource = NoResource THEN GroupFrom(fs, groupBy, i + 1, groups)
             ELSE IF k = 0
             THEN GroupFrom(fs, groupBy, i + 1,
                      Append(groups,
                             [id |-> resource.id,
                              name |-> IF resource.name # "" THEN resource.name
                                       ELSE resource.id,
                              features |-> <<feature>>]))
             ELSE GroupFrom(fs, groupBy, i + 1,
                      [groups EXCEPT ![k].features = Append(@, feature)])

groupFeaturesByResource(fs, groupBy) == GroupFrom(fs, groupBy, 1, <<>>)

\* events.push({date: f.startAt, delta: 1}); events.push({date: f.endAt, delta: -1})
EventsOf(fs) ==
    [k \in 1..(2 * Len(fs)) |->
        IF k % 2 = 1 THEN [date |-> fs[(k + 1) \div 2].startAt, delta |-> 1]
        ELSE [date |-> fs[k \div 2].endAt, delta |-> -1]]

\* Array.prototype.sort is stable: an event goes behind the events of the
\* same date that were pushed before it
InsertByDate(sorted, ev) ==
    LET n == Cardinality({k \in 1..Len(sorted) : sorted[k].date <= ev.date})
    IN  SubSeq(sorted, 1, n) \o <<ev>> \o SubSeq(sorted, n + 1, Len(sorted))

RECURSIVE SortByDate(_, _, _)
SortByDate(events, i, sorted) ==
    IF i > Len(events) THEN sorted
    ELSE SortByDate(events, i + 1, InsertByDate(sorted, events[i]))

RECURSIVE RunningMax(_, _, _, _)
RunningMax(events, i, concurrent, maxConcurrent) ==
    IF i > Len(events) THEN maxConcurrent
    ELSE LET c == concurrent + events[i].delta
         IN  RunningMax(events, i + 1, c, IF c > maxConcurrent THEN c ELSE maxConcurrent)

calculateMaxConcurrent(fs) == RunningMax(SortByDate(EventsOf(fs), 1, <<>>), 1, 0, 0)

Warning(resourceId, resourceName, resourceType, maxAllowed, actual, names) ==
    [resourceId |-> resourceId, resourceName |-> resourceName,
     resourceType |-> resourceType, maxConcurrent |-> maxAllowed,
     actualConcurrent |-> actual, overlappingFeatures |-> names]

\* A resource at its limit is reported as well
checkResourceCapacity_AtLimit(resourceId, resourceName, resourceFeatures, maxAllowed, resourceType) ==
    LET maxConcurrent == calculateMaxConcurrent(resourceFeatures)
    IN  IF maxConcurrent >= maxAllowed
        THEN <<Warning(resourceId, resourceName, resourceType, maxAllowed, maxConcurrent,
                       [k \in 1..Len(resourceFeatures) |-> resourceFeatures[k].name])>>
        ELSE <<>>

\* <<warning>>, or <<>> for null
checkResourceCapacity(resourceId, resourceName, resourceFeatures, maxAllowed, resourceType) ==
    LET maxConcurrent == calculateMaxConcurrent(resourceFeatures)
    IN  IF maxConcurrent > maxAllowed
        THEN <<Warning(resourceId, resourceName, resourceType, maxAllowed, maxConcurrent,
                       [k \in 1..Len(resourceFeatures) |-> resourceFeatures[k].name])>>
        ELSE <<>>

\* for (const [resourceId, {name, features}] of resourceGroups), from group k on
RECURSIVE CheckGroups(_, _, _, _)
CheckGroups(groups, k, rule, ws) ==
    IF k > Len(groups) THEN ws
    ELSE CheckGroups(groups, k + 1, rule,
             ws \o checkResourceCapacity(groups[k].id, groups[k].name, groups[k].features,
                                         rule.maxConcurrent, rule.groupBy))

\* for (const rule of capacityRules), from rule i on
RECURSIVE CheckRules(_, _, _, _)
CheckRules(fs, capacityRules, i, ws) ==
    IF i > Len(capacityRules) THEN ws
    ELSE CheckRules(fs, capacityRules, i + 1,
             CheckGroups(groupFeaturesByResource(fs, capacityRules[i].groupBy), 1,
                         capacityRules[i], ws))

checkCapacity(fs, rs) ==
    CheckRules(fs, SelectSeq(rs, LAMBDA r : r.type = "capacity" /\ r.enabled), 1, <<>>)

\* A call of checkCapacity on the host's features and rules
CheckCapacity ==
    /\ calls < MaxCalls
    /\ warnings' = checkCapacity(features, rules)
    /\ input' = features
    /\ calls' = calls + 1
    /\ UNCHANGED <<features, dependencies, rules, moved, order, updates, cal, bfs, arrow, view>>

\* Capacity inputs: up to three features F1, F2, F3 in either orientation of
\* owner and group, with or without an owner or a group, one owner unnamed
CapacityNames == <<"F1", "F2", "F3">>

CapacityResources ==
    { <<Resource("u1", "Uma"), Resource("g1", "Core")>>,
      <<Resource("u2", ""), Resource("g1", "Core")>>,
      <<NoResource, Resource("g2", "Apps")>>,
      <<Resource("u1", "Uma"), NoResource>> }

CapacityDates == {d \in (0..MaxCapDay) \X (0..MaxCapDay) : d[1] <= d[2]}

CapacityRuleArrays ==
    { <<CapacityRule(TRUE, 1, "owner")>>,
      <<CapacityRule(TRUE, 2, "owner")>>,
      <<CapacityRule(TRUE, 1, "group")>>,
      <<CapacityRule(FALSE, 1, "owner")>>,
      <<CapacityRule(TRUE, 1, "owner"), CapacityRule(TRUE, 2, "group")>>,
      <<Weekend, CapacityRule(TRUE, 0, "group")>> }

InitCapacity ==
    /\ \E n \in 0..Len(CapacityNames) :
          \E ds \in [1..n -> CapacityDates], rsrc \in [1..n -> CapacityResources] :
              features = [k \in 1..n |->
                             FeatureWithOwner(CapacityNames[k], ds[k][1], ds[k][2],
                                              rsrc[k][1], rsrc[k][2])]
    /\ rules \in CapacityRuleArrays
    /\ dependencies = <<>>
    /\ InitEngine

SpecCapacity == InitCapacity /\ [][CheckCapacity]_vars

-----------------------------------------------------------------------------
(* Vocabulary of the properties *)

\* The features reachable from the features of set S along the dependencies
RECURSIVE Descendants(_, _)
Descendants(S, deps) ==
    LET next == S \cup {deps[i].targetId : i \in {j \in 1..Len(deps) : deps[j].sourceId \in S}}
    IN  IF next = S THEN S ELSE Descendants(next, deps)

\* Whether a dependency path leads from feature a to feature b
Reaches(a, b, deps) ==
    \E i \in 1..Len(deps) :
        deps[i].sourceId = a /\ b \in Descendants({deps[i].targetId}, deps)

Acyclic(deps) == \A i \in 1..Len(deps) : ~Reaches(deps[i].sourceId, deps[i].sourceId, deps)

\* Position of an id in the processing order (0 when it is not in it)
Position(ord, id) ==
    IF \E i \in 1..Len(ord) : ord[i] = id
    THEN CHOOSE i \in 1..Len(ord) : ord[i] = id
    ELSE 0

\* The dates of a feature of the host's array
FeatureOf(fs, id) == fs[CHOOSE i \in 1..Len(fs) : fs[i].id = id]

\* The constraint of a dependency type on the dates of source s and target t
Satisfied(ty, s, t) ==
    CASE ty = "FS" -> t.startAt >= s.endAt
      [] ty = "SS" -> t.startAt >= s.startAt
      [] ty = "FF" -> t.endAt >= s.endAt
      [] ty = "SF" -> t.endAt >= s.startAt

NoEnabledRules == Len(EnabledRules(rules)) = 0

-----------------------------------------------------------------------------
(* Properties of the graph inputs (SpecGraph) *)

\* C1: after recalculateSchedule with no enabled rules, the features with the
\* returned updates applied satisfy every dependency whose source and target
\* both exist.  Stated for the acyclic graphs, where the constraints can all
\* be met at once; it fails there (A -> B, A -> C, C -> B: B is placed before
\* C moves).
C1_DependenciesSatisfied ==
    (calls >= 1 /\ NoEnabledRules /\ Acyclic(dependencies)) =>
        \A i \in 1..Len(dependencies) :
            LET d == dependencies[i]
            IN  (d.sourceId \in FeatureIds(features) /\ d.targetId \in FeatureIds(features))
                => Satisfied(d.type, FeatureOf(features, d.sourceId),
                                     FeatureOf(features, d.targetId))

\* C2: recalculateSchedule is idempotent: the second call, on the features
\* with the first call's updates applied, returns no update.  Stated for the
\* acyclic graphs; it fails there for the same processing order.
C2_Idempotent ==
    (calls = 2 /\ Acyclic(dependencies)) => updates = <<>>

\* C3: the processing order is a topological order: on an acyclic graph
\* every dependency's source is processed before its target.
C3_TopologicalOrder ==
    (calls >= 1 /\ Acyclic(dependencies)) =>
        \A i \in 1..Len(dependencies) :
            Position(order, dependencies[i].sourceId)
                < Position(order, dependencies[i].targetId)


-----------------------------------------------------------------------------
(* Properties of the rule inputs (Spec) *)

Enabled == EnabledRules(rules)

\* Whether the last call returned an update of the feature
Updated(id) == \E i \in 1..Len(updates) : updates[i].id = id

\* Working days of [s, e) when exactly the weekends are off
WeekdaysIn(s, e) == Cardinality({d \in s..(e - 1) : d % 7 \notin {0, 6}})

\* The case of C5: the weekend rule alone, one FS dependency A -> B, A ending
\* on a Friday, one call made
C5_Case ==
    /\ calls = 1
    /\ Enabled = <<Weekend>>
    /\ dependencies = <<Dep("A", "B", "FS")>>
    /\ FeatureOf(input, "A").endAt % 7 = 5

\* C5 as claimed: B starts on the Monday after that Friday, and a B of two
\* working days ends on the Wednesday.
C5_StartsFollowingMonday ==
    C5_Case =>
        LET a == FeatureOf(input, "A")
            b0 == FeatureOf(input, "B")
            b == FeatureOf(features, "B")
        IN  /\ b.startAt = a.endAt + 3
            /\ WeekdaysIn(b0.startAt, b0.endAt) = 2 => b.endAt = a.endAt + 5

\* C5 as the code has it: B starts on that Friday, the day A ends (a working
\* day); when B is moved there it keeps its working days and ends on a
\* working day, a B of two working days on the following Tuesday.
C5_StartsThatFriday ==
    C5_Case =>
        LET a == FeatureOf(input, "A")
            b0 == FeatureOf(input, "B")
            b == FeatureOf(features, "B")
        IN  /\ b.startAt = a.endAt
            /\ Updated("B") =>
                  /\ b.endAt % 7 \notin {0, 6}
                  /\ WeekdaysIn(b.startAt, b.endAt) = WeekdaysIn(b0.startAt, b0.endAt)
                  /\ WeekdaysIn(b0.startAt, b0.endAt) = 2 => b.endAt = a.endAt + 4

C5_Witness ==
    /\ C5_Case
    /\ Updated("B")
    /\ WeekdaysIn(FeatureOf(input, "B").startAt, FeatureOf(input, "B").endAt) = 2

HolidayEnabled == \E i \in 1..Len(rules) : rules[i].type = "holiday" /\ rules[i].enabled

\* C6: with a holiday rule enabled, every date recalculateSchedule emits is a
\* working day unless the feature already had that date in the input.
C6_EmittedDatesAreWorkingDays ==
    (calls >= 1 /\ HolidayEnabled) =>
        \A i \in 1..Len(updates) :
            LET u == updates[i]
                f0 == FeatureOf(input, u.id)
            IN  /\ isNonWorkingDay(u.startAt, Enabled) => u.startAt = f0.startAt
                /\ isNonWorkingDay(u.endAt, Enabled) => u.endAt = f0.endAt

\* Whether an enabled constraint rule applies to the feature
ConstraintApplies(id) ==
    \E i \in 1..Len(rules) :
        /\ rules[i].type = "constraint" /\ rules[i].enabled
        /\ rules[i].constraintType \in {"fixed_start", "fixed_end", "fixed_both"}
        /\ rules[i].featureIds = {} \/ id \in rules[i].featureIds

AlignmentApplies(id) ==
    \E i \in 1..Len(rules) :
        /\ rules[i].type = "alignment" /\ rules[i].enabled
        /\ rules[i].featureIds = {} \/ id \in rules[i].featureIds

ScanWindow == 3 * 7

\* The day n working days after d (n > 0) or -n working days before d (n < 0)
ShiftedByWorkingDays(d, n, rs) ==
    CHOOSE e \in (d - ScanWindow)..(d + ScanWindow) :
        /\ ~isNonWorkingDay(e, rs)
        /\ IF n > 0
           THEN e > d /\ Cardinality({x \in (d + 1)..e : ~isNonWorkingDay(x, rs)}) = n
           ELSE e < d /\ Cardinality({x \in e..(d - 1) : ~isNonWorkingDay(x, rs)}) = -n

\* C7: an enabled lag rule of L days for (A, B) moves the candidate start of
\* the edge A -> B by L working days from the candidate without lag: later
\* for L > 0, earlier for L < 0, with or without time-off rules.  Read off B,
\* whose only incoming edge is A -> B and which no constraint or alignment
\* rule touches, so that its start is that candidate.
C7_LagShiftsByWorkingDays ==
    (/\ calls = 1
     /\ getLagDays("A", "B", Enabled) # 0
     /\ ~ConstraintApplies("B") /\ ~AlignmentApplies("B")) =>
        LET d == dependencies[1]
            b0 == FeatureOf(input, "B")
            base == getConstraintStartWithRules(
                        FeatureOf(input, "A"),
                        getWorkingDaysBetween(b0.startAt, b0.endAt, Enabled),
                        d.type, Enabled, "A", "B")
        IN  FeatureOf(features, "B").startAt
                = ShiftedByWorkingDays(base, getLagDays("A", "B", Enabled), Enabled)

\* C10: a feature an enabled constraint rule applies to never appears in the
\* updates of recalculateSchedule.
C10_ConstrainedNeverUpdated ==
    calls >= 1 => \A i \in 1..Len(updates) : ~ConstraintApplies(updates[i].id)

\* A constrained B whose predecessor ends after B starts, left where it was
C10_Witness ==
    /\ calls = 1
    /\ ConstraintApplies("B")
    /\ dependencies[1].type = "FS"
    /\ FeatureOf(input, "A").endAt > FeatureOf(input, "B").startAt
    /\ ~Updated("B")


-----------------------------------------------------------------------------
(* Properties of the calendar operations (SpecCalendar) *)

\* C4: addWorkingDays and subtractWorkingDays terminate and return a date for
\* every start date, every n >= 0 and every set of enabled holiday and
\* blackout rules: an operation that has not returned can take its next step.
\* It fails when the enabled holiday rules cover all seven weekdays: the
\* first loop then finds no working day however far it scans.
C4_CalendarOperationsTotal ==
    cal.pc # "done" => ENABLED CalendarNext

-----------------------------------------------------------------------------
(* Properties of autoSchedule (SpecAuto) *)

MovedExists == moved.id \in FeatureIds(features)

\* Positions of the updates carrying an id
EntriesOf(id) == {i \in 1..Len(updates) : updates[i].id = id}

\* C8 as stated: when the moved feature exists, the returned updates hold
\* exactly one entry with the moved id, it is the first entry and its dates
\* are the new dates, for every dependency graph, cycles through the moved
\* feature included.
C8_ExactlyOneMovedEntry ==
    (bfs.pc = "done" /\ MovedExists) =>
        /\ EntriesOf(moved.id) = {1}
        /\ updates[1] = moved

\* C8 as the code has it: when the moved feature exists, the first entry of
\* the returned updates carries the moved id and the new dates, for every
\* dependency graph; it is the only entry with the moved id when no
\* dependency cycle passes through the moved feature.
C8_MovedEntryFirst ==
    (bfs.pc = "done" /\ MovedExists) =>
        /\ Len(updates) >= 1
        /\ updates[1] = moved
        /\ ~Reaches(moved.id, moved.id, dependencies) => EntriesOf(moved.id) = {1}

\* C8 witness: a returned call that moved an existing feature off every
\* cycle of a cyclic graph and propagated to both other features
C8_Witness ==
    /\ bfs.pc = "done"
    /\ MovedExists
    /\ ~Reaches(moved.id, moved.id, dependencies)
    /\ ~Acyclic(dependencies)
    /\ Len(updates) >= 3

-----------------------------------------------------------------------------
(* Properties of checkCapacity (SpecCapacity) *)

\* The features of a resource, in the order of the features array
FeaturesOfResource(fs, groupBy, id) ==
    SelectSeq(fs, LAMBDA f : ResourceOf(f, groupBy) # NoResource /\ ResourceOf(f, groupBy).id = id)

ResourceIds(fs, groupBy) ==
    {ResourceOf(fs[k], groupBy).id : k \in {j \in 1..Len(fs) : ResourceOf(fs[j], groupBy) # NoResource}}

\* The sweep, stated without sorting: event 2k-1 is the start (+1) and event
\* 2k the end (-1) of the k-th feature; an event comes before another when its
\* date is earlier, or the same and it was created first.  The peak is the
\* largest running sum, the empty sum included.
EventDate(fs, k) == IF k % 2 = 1 THEN fs[(k + 1) \div 2].startAt ELSE fs[k \div 2].endAt

NotAfter(fs, j, k) ==
    \/ EventDate(fs, j) < EventDate(fs, k)
    \/ EventDate(fs, j) = EventDate(fs, k) /\ j <= k

RunningSum(fs, k) ==
    Cardinality({j \in 1..(2 * Len(fs)) : j % 2 = 1 /\ NotAfter(fs, j, k)})
    - Cardinality({j \in 1..(2 * Len(fs)) : j % 2 = 0 /\ NotAfter(fs, j, k)})

SweepPeak(fs) ==
    LET sums == {0} \cup {RunningSum(fs, k) : k \in 1..(2 * Len(fs))}
    IN  CHOOSE m \in sums : \A x \in sums : x <= m

\* Most features of fs active on one day, an end date counted as active
\* (closed) or not (half-open)
ClosedPeak(fs) ==
    LET counts == {Cardinality({k \in 1..Len(fs) : fs[k].startAt <= t /\ t <= fs[k].endAt}) :
                       t \in 0..MaxCapDay}
    IN  CHOOSE m \in counts : \A x \in counts : x <= m

HalfOpenPeak(fs) ==
    LET counts == {Cardinality({k \in 1..Len(fs) : fs[k].startAt <= t /\ t < fs[k].endAt}) :
                       t \in 0..MaxCapDay}
    IN  CHOOSE m \in counts : \A x \in counts : x <= m

EnabledCapacityRules == {i \in 1..Len(rules) : rules[i].type = "capacity" /\ rules[i].enabled}

\* The warnings of a resource under a rule
WarningsFor(rule, id) ==
    {k \in 1..Len(warnings) :
        /\ warnings[k].resourceId = id
        /\ warnings[k].resourceType = rule.groupBy
        /\ warnings[k].maxConcurrent = rule.maxConcurrent}

\* C9: checkCapacity returns a warning for a resource (owner or group, as the
\* rule's groupBy says) under an enabled capacity rule if and only if the
\* peak of the +1-at-start / -1-at-end sweep over that resource's features
\* exceeds max_concurrent; the warning's actualConcurrent is that peak, which
\* lies between the half-open and the closed count of features active on one
\* day, and its maxConcurrent is the configured limit.  Every warning is the
\* warning of such a resource and rule.
C9_WarningIffPeakExceeds ==
    calls >= 1 =>
        /\ \A i \in EnabledCapacityRules :
              \A id \in ResourceIds(features, rules[i].groupBy) :
                  LET fs == FeaturesOfResource(features, rules[i].groupBy, id)
                  IN  /\ WarningsFor(rules[i], id) # {} <=> SweepPeak(fs) > rules[i].maxConcurrent
                      /\ \A k \in WarningsFor(rules[i], id) :
                            /\ warnings[k].actualConcurrent = SweepPeak(fs)
                            /\ HalfOpenPeak(fs) <= warnings[k].actualConcurrent
                            /\ warnings[k].actualConcurrent <= ClosedPeak(fs)
        /\ \A k \in 1..Len(warnings) :
              \E i \in EnabledCapacityRules :
                  /\ warnings[k].resourceId \in ResourceIds(features, rules[i].groupBy)
                  /\ k \in WarningsFor(rules[i], warnings[k].resourceId)

\* C9 witness: a call that warned about u1 with two concurrent features under
\* a limit of one, and did not warn about another resource under the same rule
C9_Witness ==
    /\ calls >= 1
    /\ \E k \in 1..Len(warnings) :
          /\ warnings[k].resourceId = "u1"
          /\ warnings[k].resourceType = "owner"
          /\ warnings[k].maxConcurrent = 1
          /\ warnings[k].actualConcurrent = 2
          /\ warnings[k].overlappingFeatures = <<"F1", "F2">>
    /\ \E i \in EnabledCapacityRules :
          /\ rules[i].groupBy = "owner"
          /\ "u2" \in ResourceIds(features, "owner")
          /\ WarningsFor(rules[i], "u2") = {}

-----------------------------------------------------------------------------
(* Durations of the updates of recalculateSchedule *)

\* C11: with no enabled rules, every update recalculateSchedule emits keeps
\* the feature's calendar-day duration: update.endAt - update.startAt equals
\* the endAt - startAt the feature had in the input (graph inputs, cycles
\* included).
C11_CalendarDurationPreserved ==
    (calls >= 1 /\ NoEnabledRules) =>
        \A i \in 1..Len(updates) :
            updates[i].endAt - updates[i].startAt
                = FeatureOf(input, updates[i].id).endAt - FeatureOf(input, updates[i].id).startAt

\* C11 witness: the FS chain A -> B -> C, B and C both moved, B lasting a day
C11_Witness ==
    /\ calls = 1
    /\ NoEnabledRules
    /\ dependencies = <<Dep("A", "B", "FS"), Dep("B", "C", "FS")>>
    /\ Len(updates) = 2
    /\ FeatureOf(input, "B").endAt - FeatureOf(input, "B").startAt = 1
    /\ FeatureOf(features, "C").startAt = FeatureOf(features, "B").endAt

\* C12: with holiday or blackout rules enabled, every update
\* recalculateSchedule emits keeps the feature's working-day duration: the
\* working days of [update.startAt, update.endAt) are as many as those of the
\* feature's input [startAt, endAt), for every dependency type, aligned or not.
C12_WorkingDurationPreserved ==
    (calls >= 1 /\ hasTimeOffRules(Enabled)) =>
        \A i \in 1..Len(updates) :
            getWorkingDaysBetween(updates[i].startAt, updates[i].endAt, Enabled)
                = getWorkingDaysBetween(FeatureOf(input, updates[i].id).startAt,
                                        FeatureOf(input, updates[i].id).endAt, Enabled)

\* C12 witness: an aligned feature of two working days whose update spans a
\* weekend, so that its calendar-day length changed
C12_Witness ==
    /\ calls = 1
    /\ hasTimeOffRules(Enabled)
    /\ AlignmentApplies("B")
    /\ \E i \in 1..Len(updates) :
          /\ updates[i].id = "B"
          /\ getWorkingDaysBetween(updates[i].startAt, updates[i].endAt, Enabled) = 2
          /\ updates[i].endAt - updates[i].startAt
                # FeatureOf(input, "B").endAt - FeatureOf(input, "B").startAt

-----------------------------------------------------------------------------
(* What addWorkingDays returns (SpecCalendar) *)

\* C13: for every date d, every n >= 0 and every rule set for which
\* addWorkingDays(d, n) returns, the result is not before d and is a working
\* day, [d, result) holds exactly n working days as getWorkingDaysBetween
\* counts them, and for n = 0 the result is d moved forward past the
\* non-working days it starts on (d itself when d is a working day).
C13_AddWorkingDaysCounts ==
    (cal.pc = "done" /\ cal.op = "add") =>
        /\ cal.currentDate >= cal.startDate
        /\ ~isNonWorkingDay(cal.currentDate, rules)
        /\ getWorkingDaysBetween(cal.startDate, cal.currentDate, rules) = cal.days
        /\ cal.days = 0 =>
              \A d \in cal.startDate..(cal.currentDate - 1) : isNonWorkingDay(d, rules)

\* C13 witness: two working days added from a non-working day, the result
\* lying beyond a further run of non-working days
C13_Witness ==
    /\ cal.pc = "done"
    /\ cal.op = "add"
    /\ cal.days = 2
    /\ isNonWorkingDay(cal.startDate, rules)
    /\ \E d \in (cal.startDate + 2)..(cal.currentDate - 1) :
          isNonWorkingDay(d, rules) /\ ~isNonWorkingDay(d - 1, rules)

-----------------------------------------------------------------------------
(* Slack and alignment in recalculateSchedule (Spec) *)

\* Whether an enabled lag rule names the edge
LagApplies(sourceId, targetId) ==
    \E i \in 1..Len(rules) :
        /\ rules[i].type = "lag" /\ rules[i].enabled
        /\ rules[i].sourceId = sourceId /\ rules[i].targetId = targetId

\* The enabled slack rules whose scope admits the edge
AdmittedSlack(depType, sourceId, targetId) ==
    {i \in 1..Len(rules) :
        /\ rules[i].type = "slack" /\ rules[i].enabled
        /\ rules[i].dependencyTypes = {} \/ depType \in rules[i].dependencyTypes
        /\ rules[i].betweenFeatures = {} \/ <<sourceId, targetId>> \in rules[i].betweenFeatures}

\* Sum of the days of a set of rules
RECURSIVE SumDays(_)
SumDays(S) ==
    IF S = {} THEN 0
    ELSE LET i == CHOOSE j \in S : TRUE
         IN  rules[i].days + SumDays(S \ {i})

\* The case of C14: no holiday or blackout rule enabled, B's only incoming
\* edge is FS from A, no lag, alignment or constraint rule applies
C14_Case ==
    /\ calls >= 1
    /\ ~hasTimeOffRules(Enabled)
    /\ dependencies = <<Dep("A", "B", "FS")>>
    /\ ~LagApplies("A", "B")
    /\ ~AlignmentApplies("B")
    /\ ~ConstraintApplies("B")

\* C14: in that case recalculateSchedule leaves B starting at A.end plus the
\* days of every enabled slack rule whose scope admits the edge: a rule with
\* dependencyTypes admits those types only, a rule with betweenFeatures those
\* pairs only, a rule with neither every edge; disabled rules add nothing.
C14_SlackSum ==
    C14_Case =>
        FeatureOf(features, "B").startAt
            = FeatureOf(input, "A").endAt + SumDays(AdmittedSlack("FS", "A", "B"))

\* C14 witness: B moved by an admitted slack rule scoped by type and pair
\* while another enabled slack rule does not admit the edge
C14_Witness ==
    /\ C14_Case
    /\ calls = 1
    /\ Updated("B")
    /\ \E i \in AdmittedSlack("FS", "A", "B") :
          rules[i].dependencyTypes # {} /\ rules[i].betweenFeatures # {}
    /\ \E i \in 1..Len(rules) :
          /\ rules[i].type = "slack" /\ rules[i].enabled
          /\ i \notin AdmittedSlack("FS", "A", "B")

\* The candidate start recalculateSchedule computes for B from its
\* predecessors, before alignment
Candidate(id) ==
    findConstraintStartWithRules(FeatureOf(input, id),
                                 buildReverseDependencyGraph(dependencies, id),
                                 FeaturesMap(input), Enabled)

\* The weekday of the first enabled alignment rule that applies to a feature
TargetWeekday(id) ==
    LET applying == {i \in 1..Len(rules) :
                        /\ rules[i].type = "alignment" /\ rules[i].enabled
                        /\ rules[i].featureIds = {} \/ id \in rules[i].featureIds}
    IN  rules[CHOOSE i \in applying : \A j \in applying : i <= j].startDay

\* C15: when an enabled alignment rule applies to a feature that
\* recalculateSchedule places, its start is the earliest date on the target
\* weekday that is not before the computed candidate: the candidate itself
\* when it is on that weekday, else 1 to 6 days later, never earlier.
C15_AlignedForward ==
    (calls >= 1 /\ AlignmentApplies("B") /\ ~ConstraintApplies("B")) =>
        LET c == Candidate("B")[1]
            s == FeatureOf(features, "B").startAt
        IN  /\ s >= c
            /\ s - c <= 6
            /\ getDay(s) = TargetWeekday("B")
            /\ getDay(c) = TargetWeekday("B") => s = c

\* C15 witness: B moved to a start some days after a candidate that is not
\* on the target weekday
C15_Witness ==
    /\ calls = 1
    /\ AlignmentApplies("B")
    /\ ~ConstraintApplies("B")
    /\ Updated("B")
    /\ FeatureOf(features, "B").startAt - Candidate("B")[1] >= 4

-----------------------------------------------------------------------------
(* The edges of autoSchedule (SpecAuto) *)

\* Dates u of duration d placed on the source by the rule of a dependency type
Placed(ty, source, d, u) ==
    CASE ty = "FS" -> u.startAt = source.endAt /\ u.endAt = u.startAt + d
      [] ty = "SS" -> u.startAt = source.startAt /\ u.endAt = u.startAt + d
      [] ty = "FF" -> u.endAt = source.endAt /\ u.startAt = u.endAt - d
      [] ty = "SF" -> u.endAt = source.startAt /\ u.startAt = u.endAt - d

\* What processing the edge dep does to the updates, the queue and the map
EdgeEffect(dep) ==
    LET source == bfs.map[dep.sourceId]
        target == bfs.map[dep.targetId]
        d == target.endAt - target.startAt
    IN  IF Placed(dep.type, source, d, target)
        THEN /\ updates' = updates
             /\ bfs'.queue = bfs.queue
             /\ bfs'.map = bfs.map
        ELSE /\ Len(updates') = Len(updates) + 1
             /\ SubSeq(updates', 1, Len(updates)) = updates
             /\ updates'[Len(updates')].id = dep.targetId
             /\ Placed(dep.type, source, d, updates'[Len(updates')])
             /\ bfs'.queue = Append(bfs.queue, dep.targetId)
             /\ bfs'.map[dep.targetId].startAt = updates'[Len(updates')].startAt
             /\ bfs'.map[dep.targetId].endAt = updates'[Len(updates')].endAt

\* C16: every update autoSchedule emits for a target while processing an
\* edge (source -> target, type) keeps the target's calendar-day duration d
\* and places it by the type's rule on the source's dates at that moment
\* (FS start = source.end, SS start = source.start, FF end = source.end,
\* SF end = source.start, the other date d away); a target whose dates
\* already are the computed ones is neither updated nor enqueued.
C16_EdgePlacement ==
    [][(/\ bfs.pc = "edges"
        /\ bfs.source \in DOMAIN bfs.map
        /\ Head(bfs.out).targetId \in DOMAIN bfs.map) => EdgeEffect(Head(bfs.out))]_vars

\* C16 witness: the FS chain A -> B -> C with A moved: B placed at A's new
\* end and C at B's new end, each with its own duration
C16_Witness ==
    /\ bfs.pc = "done"
    /\ moved.id = "A"
    /\ dependencies = <<Dep("A", "B", "FS"), Dep("B", "C", "FS")>>
    /\ Len(updates) = 3
    /\ updates[2] = Update("B", moved.endAt,
                           moved.endAt + FeatureOf(features, "B").endAt
                                       - FeatureOf(features, "B").startAt)
    /\ updates[3] = Update("C", updates[2].endAt,
                           updates[2].endAt + FeatureOf(features, "C").endAt
                                            - FeatureOf(features, "C").startAt)
    /\ FeatureOf(features, "B").endAt - FeatureOf(features, "B").startAt
          # FeatureOf(features, "C").endAt - FeatureOf(features, "C").startAt

\* C17: autoSchedule terminates on every finite input, cyclic graphs and
\* dependencies of a feature on itself included, and goes through the
\* outgoing edges of each feature id at most once during a call.
C17_TerminatesExpandingOnce ==
    /\ <>(bfs.pc = "done")
    /\ [](\A i, j \in 1..Len(bfs.expanded) : i # j => bfs.expanded[i] # bfs.expanded[j])

\* C17 witness: a returned call on a graph with a cycle through the moved
\* feature, in which an id already visited was dequeued again and all three
\* features were expanded
C17_Witness ==
    /\ bfs.pc = "done"
    /\ Reaches(moved.id, moved.id, dependencies)
    /\ Len(bfs.expanded) = 3
    /\ Len(updates) > 3

-----------------------------------------------------------------------------
(* Both entry points of the engine on the same inputs: the host calls       *)
(* recalculateSchedule and autoSchedule in any order, MaxCalls times at     *)
(* most.  The dependency arrays include ends that no feature carries (Z).   *)

\* A chain C -> B -> A whose head C has one more dependency, entering it from Z
AbsentRootArrays ==
    {<<Dep("C", "B", t), Dep("B", "A", u), Dep("Z", "C", t)>> : t \in DepTypes, u \in DepTypes}

CallsDepArrays == SpecialDepArrays \cup AbsentRootArrays \cup DepArrays(0) \cup DepArrays(1)

CallsRuleArrays == {<<>>, <<Weekend>>}

InitCalls ==
    /\ \E b \in GraphDates, c \in LaterDates :
          features = <<Feature("A", 0, MaxDur),
                       Feature("B", b[1], b[1] + b[2]),
                       Feature("C", c[1], c[1] + c[2])>>
    /\ \E id \in MovedIds, d \in NewDates : moved = Update(id, d[1], d[1] + d[2])
    /\ dependencies \in CallsDepArrays
    /\ rules \in CallsRuleArrays
    /\ input = <<>>
    /\ order = <<>>
    /\ updates = <<>>
    /\ warnings = <<>>
    /\ arrow = NoArrow
    /\ view = NoView
    /\ calls = 0
    /\ cal = NoCal
    /\ bfs = [NoBfs EXCEPT !.pc = "call"]

CallsNext ==
    \/ Recalculate
    \/ AutoScheduleNext

SpecCalls == InitCalls /\ [][CallsNext]_vars

\* The dependencies with both ends among the features, in array order
PresentDeps(fs, deps) ==
    SelectSeq(deps, LAMBDA d : d.sourceId \in FeatureIds(fs) /\ d.targetId \in FeatureIds(fs))

HasAbsentEnd(fs, deps) == PresentDeps(fs, deps) # deps

\* id has dependencies entering it and none of their sources is a feature
AllPredecessorsAbsent(fs, deps, id) ==
    /\ Len(buildReverseDependencyGraph(deps, id)) > 0
    /\ Len(buildReverseDependencyGraph(PresentDeps(fs, deps), id)) = 0

UpdatedIds(ups) == {ups[i].id : i \in 1..Len(ups)}

\* updates holds what the last call of recalculateSchedule returned
RecalculateReturned == order # <<>>

\* updates holds what the last call of autoSchedule returned
AutoScheduleReturned == bfs.pc = "done" /\ order = <<>>

\* C18: a dependency whose source id or target id is not among the features
\* is ignored by recalculateSchedule and by autoSchedule: every call returns
\* (no step is left without a successor on an absent id), no update carries
\* an id that is not a feature, the updates are those of the call on the
\* dependencies with both ends present (the remaining edges are applied as
\* if the ignored ones were not there), and a feature all of whose
\* predecessors are absent gets no update (in autoSchedule: other than the
\* moved feature's own entry).
C18_AbsentEndsIgnored ==
    /\ UpdatedIds(updates) \subseteq FeatureIds(features)
    /\ bfs.pc \in {"loop", "edges"} => ENABLED AutoScheduleNext
    /\ RecalculateReturned =>
          /\ updates = recalculateSchedule(input, PresentDeps(input, dependencies), rules)
          /\ \A id \in FeatureIds(input) :
                AllPredecessorsAbsent(input, dependencies, id) => id \notin UpdatedIds(updates)
    /\ AutoScheduleReturned =>
          /\ updates = autoSchedule(moved.id, moved, input, PresentDeps(input, dependencies))
          /\ \A id \in FeatureIds(input) \ {moved.id} :
                AllPredecessorsAbsent(input, dependencies, id) => id \notin UpdatedIds(updates)

\* C19: autoSchedule and recalculateSchedule never change the caller's
\* inputs.  Through every step of either call the feature objects the caller
\* passed in (input) keep the startAt and endAt they were passed with, and
\* the dependencies and rules arrays are unchanged; the new dates are in the
\* engine's own copies and in the returned updates only.
C19_InputsUnchanged ==
    [][/\ input' = features
       /\ \A i \in 1..Len(features) :
             /\ input'[i].startAt = features[i].startAt
             /\ input'[i].endAt = features[i].endAt
       /\ dependencies' = dependencies
       /\ rules' = rules]_vars

\* C19 witness: autoSchedule has returned updates for features other than the
\* moved one, its own copies carry the new dates, the caller's objects do not
C19_Witness ==
    /\ AutoScheduleReturned
    /\ Len(updates) > 1
    /\ input = features
    /\ \E i \in 1..Len(input) :
          /\ input[i].id # moved.id
          /\ bfs.map[input[i].id].own
          /\ bfs.map[input[i].id].startAt # input[i].startAt

-----------------------------------------------------------------------------
(* The arrow router's endpoints (calculateDependencyEndpoints).  A position *)
(* is the rectangle of a feature's bar: left, width, top, height in pixels. *)
(* featurePositions is a function from the ids that have a position.  The   *)
(* result is <<>> for null and <<endpoints>> otherwise.  Heights are even,  *)
(* so that height / 2 is a whole number of pixels.                          *)

MaxLeft == 2       \* largest left edge
MaxWidth == 2      \* largest bar width
MaxTop == 1        \* largest top edge
MaxHalfHeight == 2 \* largest bar height, halved

FeaturePosition(i, l, w, t, h) == [id |-> i, left |-> l, width |-> w, top |-> t, height |-> h]

\* Mutant of calculateDependencyEndpoints: no case for SF, which falls to the
\* default
calculateDependencyEndpoints_NoSFCase(dependency, featurePositions) ==
    IF ~(dependency.sourceId \in DOMAIN featurePositions
         /\ dependency.targetId \in DOMAIN featurePositions)
    THEN <<>>
    ELSE LET sourcePos == featurePositions[dependency.sourceId]
             targetPos == featurePositions[dependency.targetId]
             sourceVerticalCenter == sourcePos.top + sourcePos.height \div 2
             targetVerticalCenter == targetPos.top + targetPos.height \div 2
             ends == CASE dependency.type = "SS" ->
                            [sourceX |-> sourcePos.left,
                             targetX |-> targetPos.left,
                             targetFromRight |-> FALSE]
                       [] dependency.type = "FF" ->
                            [sourceX |-> sourcePos.left + sourcePos.width,
                             targetX |-> targetPos.left + targetPos.width,
                             targetFromRight |-> TRUE]
                       [] OTHER ->
                            [sourceX |-> sourcePos.left + sourcePos.width,
                             targetX |-> targetPos.left,
                             targetFromRight |-> FALSE]
         IN  <<[source |-> [x |-> ends.sourceX, y |-> sourceVerticalCenter],
                target |-> [x |-> ends.targetX, y |-> targetVerticalCenter],
                targetFromRight |-> ends.targetFromRight]>>

calculateDependencyEndpoints(dependency, featurePositions) ==
    IF ~(dependency.sourceId \in DOMAIN featurePositions
         /\ dependency.targetId \in DOMAIN featurePositions)
    THEN <<>>
    ELSE LET sourcePos == featurePositions[dependency.sourceId]
             targetPos == featurePositions[dependency.targetId]
             sourceVerticalCenter == sourcePos.top + sourcePos.height \div 2
             targetVerticalCenter == targetPos.top + targetPos.height \div 2
             ends == CASE dependency.type = "FS" ->
                            [sourceX |-> sourcePos.left + sourcePos.width,
                             targetX |-> targetPos.left,
                             targetFromRight |-> FALSE]
                       [] dependency.type = "SS" ->
                            [sourceX |-> sourcePos.left,
                             targetX |-> targetPos.left,
                             targetFromRight |-> FALSE]
                       [] dependency.type = "FF" ->
                            [sourceX |-> sourcePos.left + sourcePos.width,
                             targetX |-> targetPos.left + targetPos.width,
                             targetFromRight |-> TRUE]
                       [] dependency.type = "SF" ->
                            [sourceX |-> sourcePos.left,
                             targetX |-> targetPos.left + targetPos.width,
                             targetFromRight |-> TRUE]
                       [] OTHER ->
                            [sourceX |-> sourcePos.left + sourcePos.width,
                             targetX |-> targetPos.left,
                             targetFromRight |-> FALSE]
         IN  <<[source |-> [x |-> ends.sourceX, y |-> sourceVerticalCenter],
                target |-> [x |-> ends.targetX, y |-> targetVerticalCenter],
                targetFromRight |-> ends.targetFromRight]>>

\* The router calls calculateDependencyEndpoints on its arguments
CalculateEndpoints ==
    /\ arrow.pc = "call"
    /\ arrow' = [arrow EXCEPT !.pc = "done",
                              !.endpoints = calculateDependencyEndpoints(arrow.dependency,
                                                                         arrow.featurePositions)]
    /\ UNCHANGED <<features, dependencies, rules, moved, input, order, updates, warnings,
                   calls, cal, bfs, view>>

\* Arrow inputs: A and B each with a position or with none; a dependency
\* between them, either way round, of any type
PositionsOf(i) ==
    {FeaturePosition(i, l, w, t, 2 * h) :
        l \in 0..MaxLeft, w \in 1..MaxWidth, t \in 0..MaxTop, h \in 1..MaxHalfHeight}

PositionMaps ==
    {<<>>}
    \cup {[i \in {"A"} |-> a] : a \in PositionsOf("A")}
    \cup {[i \in {"B"} |-> b] : b \in PositionsOf("B")}
    \cup UNION {{[i \in {"A", "B"} |-> IF i = "A" THEN a ELSE b] : b \in PositionsOf("B")}
                : a \in PositionsOf("A")}

InitArrow ==
    /\ features = <<>>
    /\ dependencies = <<>>
    /\ rules = <<>>
    /\ moved = <<>>
    /\ input = <<>>
    /\ order = <<>>
    /\ updates = <<>>
    /\ warnings = <<>>
    /\ calls = 0
    /\ cal = NoCal
    /\ bfs = NoBfs
    /\ view = NoView
    /\ \E st \in {<<"A", "B">>, <<"B", "A">>}, ty \in DepTypes, ps \in PositionMaps :
          arrow = [NoArrow EXCEPT !.pc = "call", !.dependency = Dep(st[1], st[2], ty),
                                  !.featurePositions = ps]

SpecArrow == InitArrow /\ [][CalculateEndpoints]_vars

\* The bar edge an arrow of the type leaves the source at and enters the
\* target at, by the table: FS right/left, SS left/left, FF right/right,
\* SF left/right
SourceSide(ty) == IF ty \in {"FS", "FF"} THEN "right" ELSE "left"

TargetSide(ty) == IF ty \in {"FF", "SF"} THEN "right" ELSE "left"

\* p is on the named vertical edge of the bar at pos, halfway down it
AtEdgeCentre(p, pos, side) ==
    /\ side = "left" => p.x = pos.left
    /\ side = "right" => p.x - pos.width = pos.left
    /\ 2 * (p.y - pos.top) = pos.height

\* C20: calculateDependencyEndpoints returns null when the source or the
\* target has no position; otherwise both endpoints are at the vertical
\* centre of their bars, the source endpoint on the source bar's edge and the
\* target endpoint on the target bar's edge that the table gives for the
\* dependency type, and targetFromRight is true exactly for FF and SF.
C20_EndpointsByType ==
    arrow.pc = "done" =>
        LET dep == arrow.dependency
            ps == arrow.featurePositions
        IN  IF dep.sourceId \notin DOMAIN ps \/ dep.targetId \notin DOMAIN ps
            THEN arrow.endpoints = <<>>
            ELSE /\ Len(arrow.endpoints) = 1
                 /\ AtEdgeCentre(arrow.endpoints[1].source, ps[dep.sourceId],
                                 SourceSide(dep.type))
                 /\ AtEdgeCentre(arrow.endpoints[1].target, ps[dep.targetId],
                                 TargetSide(dep.type))
                 /\ arrow.endpoints[1].targetFromRight = (dep.type \in {"FF", "SF"})

\* C20 witness: an SF arrow from B to A, both with positions: it leaves B's
\* left edge and enters A's right edge, flagged as entering from the right
C20_Witness ==
    /\ arrow.pc = "done"
    /\ arrow.dependency = Dep("B", "A", "SF")
    /\ DOMAIN arrow.featurePositions = {"A", "B"}
    /\ Len(arrow.endpoints) = 1
    /\ arrow.endpoints[1].source.x = arrow.featurePositions["B"].left
    /\ arrow.endpoints[1].target.x > arrow.featurePositions["A"].left
    /\ arrow.endpoints[1].targetFromRight

-----------------------------------------------------------------------------
(* The arrow router's path (calculateDependencyPath) and the dependency     *)
(* layer that calls it.  A point is [x, y]; an obstacle is a rectangle      *)
(* [id, left, top, right, bottom].  The SVG string "M x y L x y ..." is     *)
(* held as the sequence of its points, in order.  The obstacles array is    *)
(* held as a set: the code only asks whether some obstacle is hit.          *)

padding == 12        \* const padding = 12
step == 20           \* const step = 20
maxIterations == 20  \* const maxIterations = 20
margin == 4          \* const margin = 4

Min(a, b) == IF a <= b THEN a ELSE b

Max(a, b) == IF a >= b THEN a ELSE b

Abs(a) == IF a < 0 THEN 0 - a ELSE a

Point(px, py) == [x |-> px, y |-> py]

horizontalLineIntersectsObstacle(y, x1, x2, obstacle) ==
    LET minX == Min(x1, x2)
        maxX == Max(x1, x2)
    IN  IF y <= obstacle.top \/ y >= obstacle.bottom
        THEN FALSE
        ELSE ~(maxX <= obstacle.left \/ minX >= obstacle.right)

verticalLineIntersectsObstacle(x, y1, y2, obstacle) ==
    LET minY == Min(y1, y2)
        maxY == Max(y1, y2)
    IN  IF x <= obstacle.left \/ x >= obstacle.right
        THEN FALSE
        ELSE ~(maxY <= obstacle.top \/ minY >= obstacle.bottom)

\* The for loop returns the first test coordinate without a collision, that
\* is the one of the least i; baseY when all maxIterations collide
findSafeHorizontalY(baseY, direction, minX, maxX, obstacles) ==
    LET testY(i) == IF direction = "above" THEN baseY - i * step ELSE baseY + i * step
        free == {i \in 0..(maxIterations - 1) :
                    ~\E obs \in obstacles :
                        horizontalLineIntersectsObstacle(testY(i), minX, maxX, obs)}
    IN  IF free = {} THEN baseY
        ELSE testY(CHOOSE i \in free : \A j \in free : i <= j)

findSafeVerticalX(baseX, direction, minY, maxY, obstacles) ==
    LET testX(i) == IF direction = "left" THEN baseX - i * step ELSE baseX + i * step
        free == {i \in 0..(maxIterations - 1) :
                    ~\E obs \in obstacles :
                        verticalLineIntersectsObstacle(testX(i), minY, maxY, obs)}
    IN  IF free = {} THEN baseX
        ELSE testX(CHOOSE i \in free : \A j \in free : i <= j)

\* Mutant of MidRoute: the corner before the target is left out, the route
\* runs from the middle Y straight to the target's row
MidRoute_NoEntryCorner(source, target, exitX, entryX, obstacles) ==
    LET dy == target.y - source.y
        baseY == IF dy > 0 THEN Max(source.y, target.y) ELSE Min(source.y, target.y)
        direction == IF dy > 0 THEN "below" ELSE "above"
        midY == findSafeHorizontalY(IF direction = "below" THEN baseY + 20 ELSE baseY - 20,
                                    direction, Min(exitX, entryX), Max(exitX, entryX),
                                    obstacles)
    IN  <<Point(source.x, source.y), Point(exitX, source.y), Point(exitX, midY),
          Point(entryX, target.y), Point(target.x, target.y)>>

\* The five- and six-point routes through a middle Y (entryX differs)
MidRoute(source, target, exitX, entryX, obstacles) ==
    LET dy == target.y - source.y
        baseY == IF dy > 0 THEN Max(source.y, target.y) ELSE Min(source.y, target.y)
        direction == IF dy > 0 THEN "below" ELSE "above"
        midY == findSafeHorizontalY(IF direction = "below" THEN baseY + 20 ELSE baseY - 20,
                                    direction, Min(exitX, entryX), Max(exitX, entryX),
                                    obstacles)
    IN  <<Point(source.x, source.y), Point(exitX, source.y), Point(exitX, midY),
          Point(entryX, midY), Point(entryX, target.y), Point(target.x, target.y)>>

calculateDependencyPath(source, target, targetFromRight, obstacles) ==
    LET dy == target.y - source.y
        dx == target.x - source.x
    IN  IF Abs(dy) < 5
        THEN <<Point(source.x, source.y), Point(target.x, target.y)>>
        ELSE IF targetFromRight
        THEN IF dx > 0
             THEN LET exitX == findSafeVerticalX(target.x + padding, "right",
                                                 Min(source.y, target.y),
                                                 Max(source.y, target.y), obstacles)
                  IN  <<Point(source.x, source.y), Point(exitX, source.y),
                        Point(exitX, target.y), Point(target.x, target.y)>>
             ELSE MidRoute(source, target, source.x + padding, target.x + padding, obstacles)
        ELSE IF dx > padding * 2
             THEN LET turnX == findSafeVerticalX(source.x + padding, "right",
                                                 Min(source.y, target.y),
                                                 Max(source.y, target.y), obstacles)
                  IN  <<Point(source.x, source.y), Point(turnX, source.y),
                        Point(turnX, target.y), Point(target.x, target.y)>>
             ELSE MidRoute(source, target, source.x + padding, target.x - padding, obstacles)

\* allObstacles: every position inflated by margin
Obstacle(pos) ==
    [id |-> pos.id, left |-> pos.left - margin, top |-> pos.top - margin,
     right |-> pos.left + pos.width + margin, bottom |-> pos.top + pos.height + margin]

\* allObstacles without the dependency's source and target
ObstaclesFor(dep, featurePositions) ==
    {Obstacle(featurePositions[i]) :
        i \in {j \in DOMAIN featurePositions : j # dep.sourceId /\ j # dep.targetId}}

\* GanttDependencyLayer, for a dependency that has endpoints: filter the
\* obstacles and compute the path
CalculatePath ==
    /\ arrow.pc = "done"
    /\ Len(arrow.endpoints) = 1
    /\ LET obstacles == ObstaclesFor(arrow.dependency, arrow.featurePositions)
       IN  arrow' = [arrow EXCEPT !.pc = "path",
                                  !.obstacles = obstacles,
                                  !.path = calculateDependencyPath(arrow.endpoints[1].source,
                                                                   arrow.endpoints[1].target,
                                                                   arrow.endpoints[1].targetFromRight,
                                                                   obstacles)]
    /\ UNCHANGED <<features, dependencies, rules, moved, input, order, updates, warnings,
                   calls, cal, bfs, view>>

\* GanttDependencyLayer, for a dependency without endpoints: no path
SkipPath ==
    /\ arrow.pc = "done"
    /\ Len(arrow.endpoints) = 0
    /\ arrow' = [arrow EXCEPT !.pc = "none"]
    /\ UNCHANGED <<features, dependencies, rules, moved, input, order, updates, warnings,
                   calls, cal, bfs, view>>

RouterNext ==
    \/ CalculateEndpoints
    \/ CalculatePath
    \/ SkipPath

\* Layouts in pixels: bars of height 20 on the rows at top 0 and top 40, and
\* at top 2 (a bar two pixels off the first row); left edges every 10 pixels;
\* widths 10 and 20.  A is the source, B the target, C a third bar, which may
\* have no position.
MaxCol == 5   \* rightmost left edge, in units of 10 pixels

Lefts == {10 * c : c \in 0..MaxCol}

Bars(i, tops) ==
    {FeaturePosition(i, l, w, t, 20) : l \in Lefts, w \in {10, 20}, t \in tops}

Overlap(p, q) ==
    /\ p.left < q.left + q.width
    /\ q.left < p.left + p.width
    /\ p.top < q.top + q.height
    /\ q.top < p.top + p.height

Layouts ==
    {[i \in {"A", "B", "C"} |-> CASE i = "A" -> a [] i = "B" -> b [] OTHER -> c] :
        a \in Bars("A", {0, 40}), b \in Bars("B", {0, 2, 40}), c \in Bars("C", {0, 40})}
    \cup {[i \in {"A", "B"} |-> IF i = "A" THEN a ELSE b] :
            a \in Bars("A", {0}), b \in Bars("B", {40})}
    \cup {[i \in {"A"} |-> a] : a \in Bars("A", {0})}

InitRouter ==
    /\ features = <<>>
    /\ dependencies = <<>>
    /\ rules = <<>>
    /\ moved = <<>>
    /\ input = <<>>
    /\ order = <<>>
    /\ updates = <<>>
    /\ warnings = <<>>
    /\ calls = 0
    /\ cal = NoCal
    /\ bfs = NoBfs
    /\ view = NoView
    /\ \E ty \in DepTypes, ps \in Layouts :
          /\ \A i, j \in DOMAIN ps : i # j => ~Overlap(ps[i], ps[j])
          /\ arrow = [NoArrow EXCEPT !.pc = "call", !.dependency = Dep("A", "B", ty),
                                     !.featurePositions = ps]

SpecRouter == InitRouter /\ [][RouterNext]_vars

\* The segment from p to q, horizontal or vertical, passes through the
\* inside of the obstacle (its edges are exclusive)
SegmentCrosses(p, q, obs) ==
    \/ /\ p.y = q.y
       /\ obs.top < p.y /\ p.y < obs.bottom
       /\ Min(p.x, q.x) < obs.right /\ obs.left < Max(p.x, q.x)
    \/ /\ p.x = q.x
       /\ obs.left < p.x /\ p.x < obs.right
       /\ Min(p.y, q.y) < obs.bottom /\ obs.top < Max(p.y, q.y)

\* The segments of a path that run into an obstacle, by the index of their
\* first point
CrossingSegments(path, obstacles) ==
    {k \in 1..(Len(path) - 1) : \E obs \in obstacles : SegmentCrosses(path[k], path[k + 1], obs)}

\* The segment whose coordinate the router searched for: the vertical one of
\* a four-point path, the middle one of a six-point path
SearchedSegment(path) == IF Len(path) = 4 THEN {2} ELSE IF Len(path) = 6 THEN {3} ELSE {}

\* The safe-coordinate search succeeded: the segment it placed is clear
SearchSucceeded(path, obstacles) == SearchedSegment(path) \cap CrossingSegments(path, obstacles) = {}

\* C21: for every dependency and every layout in which the safe-coordinate
\* search succeeds, no horizontal or vertical segment of the path crosses an
\* obstacle, the obstacles being the rectangles of the features other than
\* the source and the target, inflated by margin, edges exclusive.
C21_NoSegmentCrossesObstacle ==
    (arrow.pc = "path" /\ SearchSucceeded(arrow.path, arrow.obstacles)) =>
        /\ arrow.obstacles = ObstaclesFor(arrow.dependency, arrow.featurePositions)
        /\ CrossingSegments(arrow.path, arrow.obstacles) = {}

\* Consecutive points of the path share their x or their y
Orthogonal(path) ==
    \A k \in 1..(Len(path) - 1) : path[k].x = path[k + 1].x \/ path[k].y = path[k + 1].y

\* The path runs from the source endpoint to the target endpoint
JoinsEndpoints(path, endpoints) ==
    /\ Len(path) >= 2
    /\ path[1] = endpoints.source
    /\ path[Len(path)] = endpoints.target

C24_TurnBetweenSourceAndTarget ==
    (/\ arrow.pc = "path"
     /\ ~arrow.endpoints[1].targetFromRight
     /\ Abs(arrow.endpoints[1].target.y - arrow.endpoints[1].source.y) >= 5
     /\ arrow.endpoints[1].target.x - arrow.endpoints[1].source.x > 2 * padding) =>
        /\ Len(arrow.path) = 4
        /\ arrow.path[2].y = arrow.path[1].y
        /\ arrow.path[3].x = arrow.path[2].x
        /\ arrow.path[4].y = arrow.path[3].y
        /\ arrow.endpoints[1].source.x <= arrow.path[2].x
        /\ arrow.path[2].x <= arrow.endpoints[1].target.x

-----------------------------------------------------------------------------
(* Joins: C has two or three incoming edges, from A, B and the absent Z, in *)
(* any listing order, those from A and B of any types; an edge A -> B may   *)
(* precede them, so that B's dates in the working copy can differ from B's  *)
(* input dates.                                                             *)

JoinSources ==
    {s \in [1..2 -> {"A", "B", "Z"}] : s[1] # s[2]}
    \cup {s \in [1..3 -> {"A", "B", "Z"}] : s[1] # s[2] /\ s[1] # s[3] /\ s[2] # s[3]}

\* The edge from Z is FS: its type is never read
JoinArrays ==
    UNION {{[i \in 1..Len(s) |-> Dep(s[i], "C", ty[i])] :
                ty \in {t \in [1..Len(s) -> DepTypes] :
                           \A i \in 1..Len(s) : s[i] = "Z" => t[i] = "FS"}}
              : s \in JoinSources}

JoinRuleArrays ==
    {<<>>, <<Weekend>>, <<Weekend, LagRule(TRUE, 1, "A", "C")>>,
     <<SlackRule(TRUE, 1, {"FS", "SS"}, {})>>}

InitJoin ==
    /\ \E b \in GraphDates, c \in LaterDates :
          features = <<Feature("A", 0, MaxDur),
                       Feature("B", b[1], b[1] + b[2]),
                       Feature("C", c[1], c[1] + c[2])>>
    /\ \E join \in JoinArrays :
          dependencies \in {join, <<Dep("A", "B", "FS")>> \o join}
    /\ rules \in JoinRuleArrays
    /\ InitEngine

SpecJoin == InitJoin /\ [][Recalculate]_vars

\* The working copy when the k-th id of the processing order is about to be
\* processed
MapBefore(k) ==
    RecalculateFrom(1, SubSeq(order, 1, k - 1), FeaturesMap(input), dependencies,
                    EnabledRules(rules), <<>>).map

\* The positions in the dependencies array of the edges entering id whose
\* source is a feature
IncomingFrom(id, map) ==
    {j \in 1..Len(dependencies) :
        dependencies[j].targetId = id /\ dependencies[j].sourceId \in DOMAIN map}

\* The candidate start of one incoming edge, from the source's dates in map
EdgeCandidate(dep, map) ==
    LET target == map[dep.targetId]
        source == map[dep.sourceId]
    IN  IF NoEnabledRules
        THEN getConstraintStart(source, target.endAt - target.startAt, dep.type)
        ELSE MinStartWithRules(source,
                               getWorkingDaysBetween(target.startAt, target.endAt,
                                                     EnabledRules(rules)),
                               dep, EnabledRules(rules))

Greatest(S) == CHOOSE m \in S : \A x \in S : x <= m

\* All the orders the dependencies array can be listed in
Listings(deps) ==
    {[i \in 1..Len(deps) |-> deps[p[i]]] :
        p \in {q \in [1..Len(deps) -> 1..Len(deps)] :
                  \A i, j \in 1..Len(deps) : i # j => q[i] # q[j]}}

\* Processing id against map with the dependencies as listed in deps
ProcessWith(id, map, deps) ==
    IF NoEnabledRules
    THEN processFeatureLegacy(id, map, deps)
    ELSE processFeatureWithRules(id, map, deps, EnabledRules(rules))

\* C23: in recalculateSchedule a feature with incoming edges whose source
\* exists leaves its processing with its start at the greatest of the
\* per-edge candidate starts, each computed from the source's dates in the
\* working copy at that time (no alignment or constraint rule is enabled
\* here); and processing it with the dependencies listed in any other order
\* gives the same working copy and the same update.
C23_StartIsGreatestCandidate ==
    RecalculateReturned =>
        \A k \in 1..Len(order) :
            LET id == order[k]
                before == MapBefore(k)
                after == MapBefore(k + 1)
                incoming == IncomingFrom(id, before)
            IN  (id \in DOMAIN before /\ incoming # {}) =>
                   /\ after[id].startAt
                         = Greatest({EdgeCandidate(dependencies[j], before) : j \in incoming})
                   /\ \A deps \in Listings(dependencies) :
                         ProcessWith(id, before, deps) = ProcessWith(id, before, dependencies)

\* C23 witness: C has been placed by its edge from B, listed after the edge
\* from A, whose candidate is smaller; B's candidate is taken from B's dates
\* in the working copy, which differ from B's input dates
C23_Witness ==
    /\ RecalculateReturned
    /\ calls = 1
    /\ \E k \in 1..Len(order) :
          /\ order[k] = "C"
          /\ LET before == MapBefore(k)
             IN  \E i, j \in IncomingFrom("C", before) :
                    /\ i < j
                    /\ dependencies[i].sourceId = "A"
                    /\ dependencies[j].sourceId = "B"
                    /\ before["B"].startAt # FeatureOf(input, "B").startAt
                    /\ EdgeCandidate(dependencies[i], before)
                          < EdgeCandidate(dependencies[j], before)
                    /\ MapBefore(k + 1)["C"].startAt = EdgeCandidate(dependencies[j], before)
                    /\ MapBefore(k + 1)["C"].startAt # before["C"].startAt

-----------------------------------------------------------------------------
(* Rule sets that take recalculateSchedule down its rule-aware path without *)
(* giving it a rule to apply: enabled capacity and duration rules only,     *)
(* alone or beside a disabled weekend rule.                                 *)

InertRuleArrays ==
    {<<CapacityRule(TRUE, 1, "owner")>>,
     <<DurationRule(TRUE)>>,
     <<DurationRule(TRUE), CapacityRule(TRUE, 1, "group")>>,
     <<HolidayRule(FALSE, {0, 6}, {}), CapacityRule(TRUE, 1, "owner")>>}

InitInert ==
    /\ \E b \in GraphDates, c \in LaterDates :
          features = <<Feature("A", 0, MaxDur),
                       Feature("B", b[1], b[1] + b[2]),
                       Feature("C", c[1], c[1] + c[2])>>
    /\ dependencies \in DepArrays(0) \cup DepArrays(1) \cup DepArrays(2)
    /\ rules \in InertRuleArrays
    /\ InitEngine

SpecInert == InitInert /\ [][Recalculate]_vars

\* Some rule is enabled, and every enabled rule is a capacity or a duration
\* rule
OnlyInertRulesEnabled ==
    /\ \E i \in 1..Len(rules) : rules[i].enabled
    /\ \A i \in 1..Len(rules) : rules[i].enabled => rules[i].type \in {"capacity", "duration"}

\* C28: called with a non-empty enabled rule set that holds no holiday,
\* blackout, slack, lag, alignment or constraint rule, recalculateSchedule
\* returns exactly the update list it returns when called with no rules.
C28_RulePathRefinesLegacy ==
    (RecalculateReturned /\ OnlyInertRulesEnabled) =>
        updates = recalculateSchedule(input, dependencies, <<>>)

\* C28 witness: the rule-aware path has returned two updates, one of them
\* along an FF edge (placed by subtracting the working days), beside a
\* disabled weekend rule
C28_Witness ==
    /\ RecalculateReturned
    /\ calls = 1
    /\ OnlyInertRulesEnabled
    /\ Len(rules) = 2 /\ rules[1].type = "holiday"
    /\ Len(updates) = 2
    /\ \E j \in 1..Len(dependencies) :
          /\ dependencies[j].type = "FF"
          /\ dependencies[j].targetId = updates[2].id

-----------------------------------------------------------------------------
(* autoSchedule on a kite: A -> B, A -> C, C -> B, B -> D, an acyclic graph *)
(* in which B has two predecessors and a dependent.  The four edges are     *)
(* listed in every order; one listing also carries an edge to the absent Z. *)

KiteEdges(t, u) == <<Dep("A", "B", t), Dep("A", "C", t), Dep("C", "B", t), Dep("B", "D", u)>>

KiteArrays ==
    UNION {Listings(KiteEdges(t, u)) \cup {<<Dep("A", "Z", t)>> \o KiteEdges(t, u)}
              : t \in DepTypes, u \in DepTypes}

InitKite ==
    /\ \E b \in LaterDates, c \in LaterDates, d \in LaterDates :
          features = <<Feature("A", 0, MaxDur),
                       Feature("B", b[1], b[1] + b[2]),
                       Feature("C", c[1], c[1] + c[2]),
                       Feature("D", d[1], d[1] + d[2])>>
    /\ \E d \in NewDates : moved = Update("A", d[1], d[1] + d[2])
    /\ dependencies \in KiteArrays
    /\ rules = <<>>
    /\ input = <<>>
    /\ order = <<>>
    /\ updates = <<>>
    /\ warnings = <<>>
    /\ arrow = NoArrow
    /\ view = NoView
    /\ calls = 0
    /\ cal = NoCal
    /\ bfs = [NoBfs EXCEPT !.pc = "call"]

SpecKite == InitKite /\ [][AutoScheduleNext]_vars

\* The final dates of id stand on the final dates of one of its existing
\* predecessors, by the rule of that dependency's type
StandsOnAPredecessor(id) ==
    \E j \in 1..Len(dependencies) :
        /\ dependencies[j].targetId = id
        /\ dependencies[j].sourceId \in DOMAIN bfs.map
        /\ Placed(dependencies[j].type, bfs.map[dependencies[j].sourceId],
                  FeatureOf(input, id).endAt - FeatureOf(input, id).startAt,
                  bfs.map[id])

\* C25: after autoSchedule on an acyclic dependency graph every non-moved
\* feature that appears in the updates ends with dates equal to its
\* dependency type's rule applied to the final dates of at least one of its
\* existing predecessors.
C25_NoStaleDates ==
    (AutoScheduleReturned /\ Acyclic(dependencies)) =>
        \A id \in UpdatedIds(updates) \ {moved.id} : StandsOnAPredecessor(id)

-----------------------------------------------------------------------------
(* checkCapacity and the order of the features array (SpecCapacity) *)

\* What a warning decides: the resource, the rule it was checked under, and
\* the peak reported
Decision(w) ==
    [resourceId |-> w.resourceId, resourceType |-> w.resourceType,
     maxConcurrent |-> w.maxConcurrent, actualConcurrent |-> w.actualConcurrent]

Decisions(ws) == {Decision(ws[k]) : k \in 1..Len(ws)}

\* C26: checkCapacity's decision does not depend on the order of the features
\* in the input list: for every permutation of the same features, one's endAt
\* equal to another's startAt included, the set of resources warned about and
\* each warning's actualConcurrent are the same.
C26_OrderOfFeaturesIrrelevant ==
    calls >= 1 =>
        \A fs \in Listings(features) :
            Decisions(checkCapacity(fs, rules)) = Decisions(warnings)

-----------------------------------------------------------------------------
(* The Gantt view (gantt-view.tsx).  The view keeps the features it shows,  *)
(* the pending changes by feature id, the baseline originalFeaturesRef, the *)
(* selection of the save dialog, and whether the dialog is open.  `stored`  *)
(* is the dates the database holds; view.handler is the handler that ran    *)
(* last and view.result what batchUpdateFeatureDates answered it.  A Map is *)
(* a function on the ids it has.  Handlers run one at a time.               *)

MaxHandlers == 5   \* number of handler runs of the view

DatesOf(f) == [startAt |-> f.startAt, endAt |-> f.endAt]

\* useEffect on mount: the baseline of every initial feature
OriginalMap(initialFeatures) ==
    [id \in FeatureIds(initialFeatures) |-> DatesOf(FeatureOf(initialFeatures, id))]

\* next.set(featureId, {...}); nothing without the feature or its baseline
trackPendingChange(pending, fs, ref, featureId, newStartAt, newEndAt, source) ==
    IF featureId \notin FeatureIds(fs) \/ featureId \notin DOMAIN ref THEN pending
    ELSE [id \in DOMAIN pending \cup {featureId} |->
             IF id = featureId
             THEN [featureId |-> featureId,
                   featureName |-> FeatureOf(fs, featureId).name,
                   originalStartAt |-> ref[featureId].startAt,
                   originalEndAt |-> ref[featureId].endAt,
                   newStartAt |-> newStartAt,
                   newEndAt |-> newEndAt,
                   source |-> source]
             ELSE pending[id]]

\* for (const update of updates) trackPendingChange(...), from update i on
RECURSIVE TrackUpdates(_, _, _, _, _, _)
TrackUpdates(pending, fs, ref, ups, i, source) ==
    IF i > Len(ups) THEN pending
    ELSE TrackUpdates(trackPendingChange(pending, fs, ref, ups[i].id, ups[i].startAt,
                                         ups[i].endAt, source),
                      fs, ref, ups, i + 1, source)

\* The features with those of the ids back on their baseline
RevertTo(fs, ref, ids) ==
    [i \in 1..Len(fs) |->
        IF fs[i].id \in ids /\ fs[i].id \in DOMAIN ref
        THEN [fs[i] EXCEPT !.startAt = ref[fs[i].id].startAt, !.endAt = ref[fs[i].id].endAt]
        ELSE fs[i]]

\* The selected pending changes as {id, startAt, endAt}
ChangesToSave(selected, pending) ==
    {Update(id, pending[id].newStartAt, pending[id].newEndAt) : id \in selected \cap DOMAIN pending}

\* Map.set of every change's dates
SetDates(map, changes) ==
    [id \in DOMAIN map \cup {c.id : c \in changes} |->
        IF id \in {c.id : c \in changes}
        THEN LET c == CHOOSE x \in changes : x.id = id IN DatesOf(c)
        ELSE map[id]]

\* batchUpdateFeatureDates: the rows after the call.  The transaction updates
\* the rows that exist; a failure rolls everything back.
batchUpdateFeatureDates(rows, changes, success) ==
    IF success
    THEN SetDates(rows, {c \in changes : c.id \in DOMAIN rows})
    ELSE rows

\* Dates a bar is dragged to: a start and an end, the end null while the
\* drag has none
MoveStarts == {0, 2}

MoveEnds(startAt) == {<<>>, <<startAt + 1>>}

\* handleMoveFeature(id, startAt, endAt)
HandleMoveFeature ==
    /\ calls < MaxHandlers
    /\ ~view.isVerificationOpen
    /\ \E id \in FeatureIds(features), startAt \in MoveStarts :
          \E endAt \in MoveEnds(startAt) :
              IF endAt = <<>>
              THEN /\ view' = [view EXCEPT !.handler = "handleMoveFeature", !.result = "none"]
                   /\ UNCHANGED <<features, moved, input, updates>>
              ELSE LET ups == autoSchedule(id, Update(id, startAt, endAt[1]), features,
                                           dependencies)
                   IN  /\ updates' = ups
                       /\ moved' = Update(id, startAt, endAt[1])
                       /\ input' = features
                       /\ features' = ApplyUpdates(features, ups)
                       /\ view' = [view EXCEPT
                                      !.pendingChanges =
                                          TrackUpdates(@, features, view.originalFeaturesRef,
                                                       ups, 1, "drag"),
                                      !.handler = "handleMoveFeature",
                                      !.result = "none"]
    /\ calls' = calls + 1
    /\ UNCHANGED <<dependencies, rules, order, warnings, cal, bfs, arrow>>

\* handleRecalculateSchedule()
HandleRecalculateSchedule ==
    /\ calls < MaxHandlers
    /\ ~view.isVerificationOpen
    /\ LET ups == recalculateSchedule(features, dependencies, <<>>)
       IN  /\ updates' = ups
           /\ input' = features
           /\ features' = ApplyUpdates(features, ups)
           /\ view' = [view EXCEPT
                          !.pendingChanges =
                              TrackUpdates(@, features, view.originalFeaturesRef, ups, 1,
                                           "recalculate"),
                          !.handler = "handleRecalculateSchedule",
                          !.result = "none"]
    /\ calls' = calls + 1
    /\ UNCHANGED <<dependencies, rules, moved, order, warnings, cal, bfs, arrow>>

\* handleOpenVerificationDialog(): the button shows with pending changes
HandleOpenVerificationDialog ==
    /\ calls < MaxHandlers
    /\ ~view.isVerificationOpen
    /\ DOMAIN view.pendingChanges # {}
    /\ view' = [view EXCEPT !.selectedChanges = DOMAIN view.pendingChanges,
                            !.isVerificationOpen = TRUE,
                            !.handler = "handleOpenVerificationDialog",
                            !.result = "none"]
    /\ calls' = calls + 1
    /\ UNCHANGED <<features, dependencies, rules, moved, input, order, updates, warnings, cal,
                   bfs, arrow>>

\* handleSelectionChange(featureId, selected) on a row of the dialog
HandleSelectionChange ==
    /\ calls < MaxHandlers
    /\ view.isVerificationOpen
    /\ \E featureId \in DOMAIN view.pendingChanges, selected \in BOOLEAN :
          view' = [view EXCEPT !.selectedChanges = IF selected THEN @ \cup {featureId}
                                                   ELSE @ \ {featureId},
                               !.handler = "handleSelectionChange",
                               !.result = "none"]
    /\ calls' = calls + 1
    /\ UNCHANGED <<features, dependencies, rules, moved, input, order, updates, warnings, cal,
                   bfs, arrow>>

\* handleSaveSelected(), the answer of batchUpdateFeatureDates being either
HandleSaveSelected ==
    /\ calls < MaxHandlers
    /\ view.isVerificationOpen
    /\ \E success \in BOOLEAN :
          LET changesToSave == ChangesToSave(view.selectedChanges, view.pendingChanges)
              unselectedFeatureIds == DOMAIN view.pendingChanges \ view.selectedChanges
          IN  /\ features' = RevertTo(features, view.originalFeaturesRef, unselectedFeatureIds)
              /\ changesToSave = {} => success
              /\ view' = [view EXCEPT
                             !.stored = IF changesToSave # {}
                                        THEN batchUpdateFeatureDates(@, changesToSave, success)
                                        ELSE @,
                             !.originalFeaturesRef = SetDates(@, changesToSave),
                             !.pendingChanges = <<>>,
                             !.selectedChanges = {},
                             !.isVerificationOpen = FALSE,
                             !.handler = "handleSaveSelected",
                             !.result = IF changesToSave = {} THEN "none"
                                        ELSE IF success THEN "success" ELSE "failure"]
    /\ calls' = calls + 1
    /\ UNCHANGED <<dependencies, rules, moved, input, order, updates, warnings, cal, bfs, arrow>>

\* onCancel of the dialog
HandleCancel ==
    /\ calls < MaxHandlers
    /\ view.isVerificationOpen
    /\ view' = [view EXCEPT !.isVerificationOpen = FALSE, !.handler = "onCancel",
                            !.result = "none"]
    /\ calls' = calls + 1
    /\ UNCHANGED <<features, dependencies, rules, moved, input, order, updates, warnings, cal,
                   bfs, arrow>>

\* handleDiscardChanges(): the button shows with pending changes
HandleDiscardChanges ==
    /\ calls < MaxHandlers
    /\ ~view.isVerificationOpen
    /\ DOMAIN view.pendingChanges # {}
    /\ features' = RevertTo(features, view.originalFeaturesRef, DOMAIN view.pendingChanges)
    /\ view' = [view EXCEPT !.pendingChanges = <<>>, !.handler = "handleDiscardChanges",
                            !.result = "none"]
    /\ calls' = calls + 1
    /\ UNCHANGED <<dependencies, rules, moved, input, order, updates, warnings, cal, bfs, arrow>>

ViewNext ==
    \/ HandleMoveFeature
    \/ HandleRecalculateSchedule
    \/ HandleOpenVerificationDialog
    \/ HandleSelectionChange
    \/ HandleSaveSelected
    \/ HandleCancel
    \/ HandleDiscardChanges

\* The view's inputs: four features on the kite of dependencies or on a
\* chain, as they were loaded
ViewFeatures ==
    {<<Feature("A", 0, 1), Feature("B", 1, 1), Feature("C", 1, 2), Feature("D", 1, 1)>>,
     <<Feature("A", 0, 1), Feature("B", 3, 3), Feature("C", 1, 2), Feature("D", 3, 4)>>}

ViewDependencies ==
    {KiteEdges("FS", "FS"),
     KiteEdges("SS", "FF"),
     <<Dep("A", "B", "FS"), Dep("B", "C", "SS"), Dep("C", "D", "FS")>>}

InitView ==
    /\ features \in ViewFeatures
    /\ dependencies \in ViewDependencies
    /\ rules = <<>>
    /\ moved = <<>>
    /\ input = <<>>
    /\ order = <<>>
    /\ updates = <<>>
    /\ warnings = <<>>
    /\ arrow = NoArrow
    /\ calls = 0
    /\ cal = NoCal
    /\ bfs = NoBfs
    /\ view = [NoView EXCEPT !.originalFeaturesRef = OriginalMap(features),
                             !.stored = OriginalMap(features)]

SpecView == InitView /\ [][ViewNext]_vars

\* The dates the view shows for a feature
Shown(id) == DatesOf(FeatureOf(features, id))

\* C27: in the Gantt view, after handleMoveFeature or
\* handleRecalculateSchedule completes, for every feature id in
\* pendingChanges the dates shown in the features state equal that pending
\* change's newStartAt and newEndAt, for every dependency graph, one where the
\* engine returns more than one update for the same id included.
C27_ShownDatesArePending ==
    view.handler \in {"handleMoveFeature", "handleRecalculateSchedule"} =>
        \A id \in DOMAIN view.pendingChanges :
            /\ Shown(id).startAt = view.pendingChanges[id].newStartAt
            /\ Shown(id).endAt = view.pendingChanges[id].newEndAt

\* A step of handleDiscardChanges
DiscardStep == calls' = calls + 1 /\ view'.handler = "handleDiscardChanges"

\* C29: in the Gantt view, after any sequence of handleMoveFeature and
\* handleRecalculateSchedule calls followed by handleDiscardChanges,
\* pendingChanges is empty and every feature's startAt and endAt equal its
\* last-saved baseline in originalFeaturesRef; and every pending change's
\* originalStartAt and originalEndAt always equal that baseline however many
\* times the feature was moved.
C29_DiscardRestoresBaseline ==
    [][/\ DiscardStep =>
            /\ DOMAIN view'.pendingChanges = {}
            /\ \A i \in 1..Len(features') :
                  DatesOf(features'[i]) = view'.originalFeaturesRef[features'[i].id]
       /\ \A id \in DOMAIN view'.pendingChanges :
            /\ view'.pendingChanges[id].originalStartAt = view'.originalFeaturesRef[id].startAt
            /\ view'.pendingChanges[id].originalEndAt = view'.originalFeaturesRef[id].endAt]_vars

\* A step of handleSaveSelected that batchUpdateFeatureDates answered with
\* {success: false}
FailedSaveStep ==
    calls' = calls + 1 /\ view'.handler = "handleSaveSelected" /\ view'.result = "failure"

\* C30: in the Gantt view, handleSaveSelected advances the saved baseline
\* originalFeaturesRef and clears pendingChanges only for changes that were
\* actually persisted: when batchUpdateFeatureDates reports failure, the
\* baseline is not advanced and the pending changes are not lost.
C30_FailedSaveKeepsChanges ==
    [][FailedSaveStep =>
          /\ view'.originalFeaturesRef = view.originalFeaturesRef
          /\ \A id \in view.selectedChanges \cap DOMAIN view.pendingChanges :
                id \in DOMAIN view'.pendingChanges]_vars

=============================================================================
